---------------------------- MODULE Spec2Model ----------------------------
(***************************************************************************)
(* amvault-connect: the popup request/response protocol.                   *)
(*                                                                         *)
(*   popup/amvaultPopup.ts      (src/unnamed/part_001)  the shared popup   *)
(*   popup/amvaultProvider.ts   (src/unnamed/part_000)  requestPopup and   *)
(*                              the signMessage / sendTransaction helpers  *)
(*   eip1193/AmvaultEIP1193Provider.ts (src/unnamed/part_002) request()    *)
(*                                                                         *)
(* The page is single-threaded.  One action is one task of the page: an    *)
(* API call made by the application, one event dispatched by the browser,  *)
(* one timer callback, or one continuation of an async function.           *)
(***************************************************************************)
EXTENDS Integers, Sequences, FiniteSets, TLC

(***************************************************************************)
(* Bounds of the model.                                                    *)
(***************************************************************************)
\* number of popup-mediated calls one behaviour issues
MaxCalls == 2
\* the clock advances in steps of TickMs, at most MaxTicks times
MaxTicks == 3
TickMs == 60000

Slots == 1..MaxCalls
MaxNow == MaxTicks * TickMs

\* `null` / `undefined` of a window reference or of the overlay element
NULL == 0

(***************************************************************************)
(* Configuration (AmvaultConnectConfig) and the page.                      *)
(***************************************************************************)
AppName == "demo"
AmvaultUrl == [origin |-> "https://amvault.example", path |-> "/router"]
PageOrigin == "https://dapp.example"
EvilOrigin == "https://evil.example"

VARIABLES
    now,           \* Date.now()
    sessionTtlMs,  \* config.sessionTtlMs, {} when not configured
    localStorage,  \* the item stored under the session key
    sharedPopup,   \* amvaultPopup.ts: the shared window reference
    overlayEl,     \* amvaultPopup.ts: the overlay element reference
    isClosing,     \* amvaultPopup.ts: release in progress
    closePending,  \* closeSharedPopup() suspended at `await Promise.resolve()`
    windows,       \* browser: state of each window this page opened
    domOverlays,   \* browser: overlay elements attached to document.body
    unloadHooks,   \* browser: registered once-only beforeunload listeners
    ex,            \* per call: the closure state of requestPopup
    seen,          \* per call: channels that carried a matching reply to it
    call,          \* per call: the API call that runs the exchange
    _listeners,    \* provider: the listeners registered for each event
    signedIn,      \* the sessions saved by the sign-ins completed since the
                   \* last disconnect(), oldest first
    last           \* outcome of the request() / disconnect() / on() /
                   \* removeListener() / off() that ran in the task just
                   \* completed, if one did

provVars == <<_listeners, signedIn>>
popupVars == <<sharedPopup, overlayEl, isClosing, closePending, windows,
               domOverlays, unloadHooks>>
vars == <<now, sessionTtlMs, localStorage, sharedPopup, overlayEl, isClosing,
          closePending, windows, domOverlays, unloadHooks, ex, seen, call,
          _listeners, signedIn, last>>

(***************************************************************************)
(* popup/amvaultPopup.ts.  The module state is threaded through the        *)
(* operators as a record so that one task can run several handlers.        *)
(***************************************************************************)
PM == [sharedPopup |-> sharedPopup, overlayEl |-> overlayEl,
       isClosing |-> isClosing, closePending |-> closePending,
       windows |-> windows, domOverlays |-> domOverlays,
       unloadHooks |-> unloadHooks]

\* sharedPopup.closed
closed(p, w) == p.windows[w] # "open"

\* ensureOverlay()
ensureOverlay(p) ==
    IF p.overlayEl # NULL THEN p
    ELSE [p EXCEPT !.overlayEl = 1, !.domOverlays = @ + 1]

\* the window a call of window.open would create: the next unused one
freshWindow(p) == CHOOSE w \in Slots :
    /\ p.windows[w] = "unopened"
    /\ \A v \in Slots : v < w => p.windows[v] # "unopened"

\* preOpenAmvaultPopup() without the test of the handle it already holds
preOpenAlwaysNew(p, blocked) ==
    LET w == freshWindow(p)
        opened == IF blocked THEN [p EXCEPT !.sharedPopup = NULL]
                  ELSE [p EXCEPT !.sharedPopup = w, !.windows[w] = "open"]
    IN [ensureOverlay(opened) EXCEPT !.unloadHooks = @ + 1]

\* preOpenAmvaultPopup(); `blocked` is the browser refusing window.open
preOpenAmvaultPopup(p, blocked) ==
    IF p.sharedPopup # NULL /\ ~closed(p, p.sharedPopup) THEN p
    ELSE LET w == freshWindow(p)
             opened == IF blocked THEN [p EXCEPT !.sharedPopup = NULL]
                       ELSE [p EXCEPT !.sharedPopup = w,
                                      !.windows[w] = "open"]
         IN [ensureOverlay(opened) EXCEPT !.unloadHooks = @ + 1]

\* getSharedPopup()
getSharedPopup(p) ==
    IF p.sharedPopup # NULL /\ ~closed(p, p.sharedPopup)
    THEN p.sharedPopup ELSE NULL

\* closeSharedPopup() without `if (isClosing) return`
closeSharedPopupUnguarded(p) ==
    LET shut == IF p.sharedPopup # NULL /\ ~closed(p, p.sharedPopup)
                THEN [p EXCEPT !.windows[p.sharedPopup] = "closed"]
                ELSE p
        detached == IF shut.overlayEl # NULL /\ shut.domOverlays > 0
                    THEN [shut EXCEPT !.domOverlays = @ - 1]
                    ELSE shut
    IN [detached EXCEPT !.isClosing = TRUE, !.sharedPopup = NULL,
                        !.overlayEl = NULL, !.closePending = TRUE]

\* closeSharedPopup() up to its `await Promise.resolve()`
closeSharedPopup(p) ==
    IF p.isClosing THEN p
    ELSE LET shut == IF p.sharedPopup # NULL /\ ~closed(p, p.sharedPopup)
                     THEN [p EXCEPT !.windows[p.sharedPopup] = "closed"]
                     ELSE p
             detached == IF shut.overlayEl # NULL /\ shut.domOverlays > 0
                         THEN [shut EXCEPT !.domOverlays = @ - 1]
                         ELSE shut
         IN [detached EXCEPT !.isClosing = TRUE, !.sharedPopup = NULL,
                             !.overlayEl = NULL, !.closePending = TRUE]

\* closeSharedPopup() after its await, without `isClosing = false`
closeSharedPopupResumeKeepingFlag(p) ==
    IF p.closePending
    THEN [p EXCEPT !.closePending = FALSE]
    ELSE p

\* closeSharedPopup() after its await: `isClosing = false`
closeSharedPopupResume(p) ==
    IF p.closePending
    THEN [p EXCEPT !.isClosing = FALSE, !.closePending = FALSE]
    ELSE p

\* closeSharedPopup() up to its await when the calls it wraps in try/catch
\* may throw.  `closeThrows`: sharedPopup.close() throws and the window
\* stays open; `removeThrows`: parent.removeChild(overlayEl) throws and the
\* overlay stays in the document.  Both exceptions are swallowed.
closeSharedPopupCatching(p, closeThrows, removeThrows) ==
    IF p.isClosing THEN p
    ELSE LET shut == IF p.sharedPopup # NULL /\ ~closed(p, p.sharedPopup)
                        /\ ~closeThrows
                     THEN [p EXCEPT !.windows[p.sharedPopup] = "closed"]
                     ELSE p
             detached == IF shut.overlayEl # NULL /\ shut.domOverlays > 0
                            /\ ~removeThrows
                         THEN [shut EXCEPT !.domOverlays = @ - 1]
                         ELSE shut
         IN [detached EXCEPT !.isClosing = TRUE, !.sharedPopup = NULL,
                             !.overlayEl = NULL, !.closePending = TRUE]

\* a beforeunload listener without `isClosing = false`
beforeunloadHookKeepingFlag(p) ==
    LET shut == IF p.sharedPopup # NULL /\ ~closed(p, p.sharedPopup)
                THEN [p EXCEPT !.windows[p.sharedPopup] = "closed"]
                ELSE p
        detached == IF shut.overlayEl # NULL /\ shut.domOverlays > 0
                    THEN [shut EXCEPT !.domOverlays = @ - 1]
                    ELSE shut
    IN [detached EXCEPT !.sharedPopup = NULL, !.overlayEl = NULL]

\* one registered beforeunload listener
beforeunloadHook(p) ==
    LET shut == IF p.sharedPopup # NULL /\ ~closed(p, p.sharedPopup)
                THEN [p EXCEPT !.windows[p.sharedPopup] = "closed"]
                ELSE p
        detached == IF shut.overlayEl # NULL /\ shut.domOverlays > 0
                    THEN [shut EXCEPT !.domOverlays = @ - 1]
                    ELSE shut
    IN [detached EXCEPT !.sharedPopup = NULL, !.overlayEl = NULL,
                        !.isClosing = FALSE]


(***************************************************************************)
(* Replies of the signer application (types.ts SigninResp / SendTxResp /   *)
(* SignMessageResp).  A signature is modelled by who signed and what was   *)
(* signed; a sign-in message by the fields _buildMessage puts into it.     *)
(***************************************************************************)
Config == [appName |-> AppName, chainId |-> 16, amvaultUrl |-> AmvaultUrl]

AddrA == "0xAbCd"
AddrB == "0xEf01"
\* String.prototype.toLowerCase on the addresses of the model
toLowerCase(a) ==
    CASE a = "0xAbCd" -> "0xabcd"
      [] a = "0xEf01" -> "0xef01"
      [] OTHER -> a

\* _buildMessage(nonce), default template
_buildMessage(nonce) ==
    <<"dapp.example", Config.appName, nonce, PageOrigin, Config.chainId>>

NoSignature == [by |-> "", over |-> <<>>]
Signed(a, m) == [by |-> a, over |-> m]

Reply(t, ok, a, sig, m, n, ch, tx, err) ==
    [type |-> t, ok |-> ok, address |-> a, signature |-> sig, message |-> m,
     nonce |-> n, chainId |-> ch, txHash |-> tx, error |-> err]

\* a correct authentication reply to the request with nonce n
GoodAuth(n, a) ==
    Reply("amvault:auth", TRUE, a, Signed(a, _buildMessage(n)), <<>>, n,
          Config.chainId, "", "")

TxReplies ==
    {Reply("amvault:tx", TRUE, "", NoSignature, <<>>, 0, Config.chainId,
           "0xhash", ""),
     Reply("amvault:tx", TRUE, "", NoSignature, <<>>, 0, 0, "", ""),
     Reply("amvault:tx", FALSE, "", NoSignature, <<>>, 0, 0, "",
           "Insufficient funds")}

ErrorReplies ==
    {Reply("amvault:error", FALSE, "", NoSignature, <<>>, 0, 0, "", e) :
        e \in {"", "User rejected"}}

OtherReplies ==
    {Reply("amvault:ready", TRUE, "", NoSignature, <<>>, 0, 0, "", "")}

\* the replies the protocol client tells apart: one of each shape
ClientReplies ==
    {GoodAuth(1, AddrA),
     Reply("amvault:auth", TRUE, AddrA, NoSignature, <<>>, 1, Config.chainId,
           "", ""),
     Reply("amvault:auth", FALSE, "", NoSignature, <<>>, 0, 0, "",
           "User cancelled")}
    \cup TxReplies \cup ErrorReplies \cup OtherReplies

\* MessageEvent: origin, source window, data (<<>> is null / undefined)
MessageEventsOf(origins, sources, replies) ==
    [origin : origins, source : sources,
     data : {<<>>} \cup {<<r>> : r \in replies}]

\* JSON text: JSON.stringify(v) and texts that do not parse
JSONstringify(v) == [kind |-> "json", value |-> <<v>>]
JsonNullText == [kind |-> "json", value |-> <<>>]
GarbageText == [kind |-> "garbage", value |-> <<>>]
EmptyText == [kind |-> "empty", value |-> <<>>]
NullText == [kind |-> "null", value |-> <<>>]

\* JSON.parse: [threw, data]
JSONparse(text) ==
    IF text.kind = "json" THEN [threw |-> FALSE, data |-> text.value]
    ELSE [threw |-> TRUE, data |-> <<>>]

STORAGE_FALLBACK_KEYS == {"amid:lastResult", "amvault:payload"}

\* StorageEvent: key ("" is null), newValue
StorageEventsOf(keys, replies) ==
    [key : keys,
     newValue : {NullText, EmptyText, GarbageText, JsonNullText}
                \cup {JSONstringify(r) : r \in replies}]

(***************************************************************************)
(* popup/amvaultProvider.ts: requestPopup.  S = [pm, ex] is the state one  *)
(* task works on; c is the call whose closure runs.                        *)
(***************************************************************************)
IdleExchange ==
    [method |-> "none", nonce |-> 0, popup |-> NULL, navigated |-> 0,
     settled |-> FALSE, timer |-> FALSE, deadline |-> 0, onMsg |-> FALSE,
     onStorage |-> FALSE, state |-> "idle", value |-> <<>>, error |-> "",
     settleCalls |-> 0, path |-> <<"IDLE">>]

\* the exchange of call c passes into a state of the protocol: IDLE at the
\* call, POPUP_ACQUIRED once the popup handle is there, AWAITING_REPLY once
\* the popup is navigated and listeners and timer are registered, then the
\* state its settlement gives it
enter(S, c, state) == [S EXCEPT !.ex[c].path = Append(@, state)]

TimeoutText == "Timed out waiting for AmVault"

\* cleanup() without clearTimeout
cleanupKeepingTimer(S, c) ==
    [pm |-> closeSharedPopup(S.pm),
     ex |-> [S.ex EXCEPT ![c].onMsg = FALSE, ![c].onStorage = FALSE]]

\* cleanup()
cleanup(S, c) ==
    [pm |-> closeSharedPopup(S.pm),
     ex |-> [S.ex EXCEPT ![c].timer = FALSE, ![c].deadline = 0,
                         ![c].onMsg = FALSE, ![c].onStorage = FALSE]]

\* resolve(data) / reject(err) of the promise requestPopup returns
resolve(S, c, data) ==
    [S EXCEPT !.ex[c].settleCalls = @ + 1,
              !.ex[c].state = IF @ = "pending" THEN "resolved" ELSE @,
              !.ex[c].value = IF S.ex[c].state = "pending" THEN <<data>> ELSE @]
reject(S, c, err) ==
    [S EXCEPT !.ex[c].settleCalls = @ + 1,
              !.ex[c].state = IF @ = "pending" THEN "rejected" ELSE @,
              !.ex[c].error = IF S.ex[c].state = "pending" THEN err ELSE @]

\* finishOk(data) without the `settled` guard and without cleanup()
finishOkUnguarded(S, c, data) == resolve(S, c, data)

\* finishOk(data)
finishOk(S, c, data) ==
    IF S.ex[c].settled THEN S
    ELSE enter(resolve(cleanup([S EXCEPT !.ex[c].settled = TRUE], c), c,
                       data),
               c, "FULFILLED")

\* finishErr(err)
finishErr(S, c, err) ==
    IF S.ex[c].settled THEN S
    ELSE enter(reject(cleanup([S EXCEPT !.ex[c].settled = TRUE], c), c, err),
               c, IF err = TimeoutText THEN "TIMED_OUT" ELSE "REJECTED")

\* data.error without the `|| 'Request rejected'`
errorTextRaw(data) == data.error

\* data.error || 'Request rejected'
errorText(data) == IF data.error # "" THEN data.error ELSE "Request rejected"

\* the reply dispatch without the comparison of the method with the type
settleOnAnyFamily(S, c, data) ==
    IF data.type \in {"amvault:auth", "amvault:tx"}
    THEN finishOk(S, c, data)
    ELSE IF data.type = "amvault:error"
    THEN finishErr(S, c, errorText(data))
    ELSE S

\* the reply dispatch shared by onMsg and onStorage
settleOn(S, c, data) ==
    LET method == S.ex[c].method IN
    IF method \in {"signin", "sign_message"} /\ data.type = "amvault:auth"
    THEN finishOk(S, c, data)
    ELSE IF method = "eth_sendTransaction" /\ data.type = "amvault:tx"
    THEN finishOk(S, c, data)
    ELSE IF data.type = "amvault:error"
    THEN finishErr(S, c, errorText(data))
    ELSE S

\* onMsg(ev) without the comparison of ev.source with the popup
onMsgAnySource(S, c, ev) ==
    IF AmvaultUrl.origin # "" /\ ev.origin # AmvaultUrl.origin THEN S
    ELSE IF ev.data = <<>> THEN S
    ELSE settleOn(S, c, ev.data[1])

\* onMsg(ev)
onMsg(S, c, ev) ==
    IF AmvaultUrl.origin # "" /\ ev.origin # AmvaultUrl.origin THEN S
    ELSE IF ev.source # S.ex[c].popup THEN S
    ELSE IF ev.data = <<>> THEN S
    ELSE settleOn(S, c, ev.data[1])

\* onStorage(ev) without the test of ev.key
onStorageAnyKey(S, c, ev) ==
    IF ev.newValue.kind \in {"null", "empty"} THEN S
    ELSE LET parsed == JSONparse(ev.newValue) IN
         IF parsed.threw THEN S
         ELSE IF parsed.data = <<>> THEN S
         ELSE settleOn(S, c, parsed.data[1])

\* onStorage(ev)
onStorage(S, c, ev) ==
    IF ev.key = "" \/ ev.key \notin STORAGE_FALLBACK_KEYS THEN S
    ELSE IF ev.newValue.kind \in {"null", "empty"} THEN S
    ELSE LET parsed == JSONparse(ev.newValue) IN
         IF parsed.threw THEN S
         ELSE IF parsed.data = <<>> THEN S
         ELSE settleOn(S, c, parsed.data[1])

\* a setTimeout callback that sends the request again instead of failing:
\* it navigates the popup once more and arms the next timer
onTimeoutRetrying(S, c) ==
    [S EXCEPT !.ex[c].navigated = @ + 1,
              !.ex[c].deadline = @ + 120000]

\* the setTimeout callback
onTimeout(S, c) == finishErr(S, c, TimeoutText)


\* requestPopup(...) without the setTimeout of the deadline
requestPopupNoTimer(S, c, method, nonce, timeoutMs, blocked, nav, t) ==
    LET pm1 == preOpenAmvaultPopup(S.pm, blocked)
        popup == pm1.sharedPopup
        S1 == [pm |-> pm1,
               ex |-> [S.ex EXCEPT ![c] = [IdleExchange EXCEPT
                           !.method = method, !.nonce = nonce,
                           !.popup = popup, !.state = "pending"]]]
    IN IF popup = NULL
       THEN enter(reject(S1, c, "Popup blocked"), c, "POPUP_BLOCKED")
       ELSE IF nav = "throws"
       THEN enter(reject(enter(S1, c, "POPUP_ACQUIRED"), c, "SecurityError"),
                  c, "REJECTED")
       ELSE enter(enter([S1 EXCEPT !.ex[c].navigated = 1,
                                   !.ex[c].onMsg = TRUE,
                                   !.ex[c].onStorage = TRUE],
                        c, "POPUP_ACQUIRED"),
                  c, "AWAITING_REPLY")

\* requestPopup(...) without `if (!popup) return reject(...)`
requestPopupBlockedIgnored(S, c, method, nonce, timeoutMs, blocked, nav, t) ==
    LET pm1 == preOpenAmvaultPopup(S.pm, blocked)
        popup == pm1.sharedPopup
        S1 == [pm |-> pm1,
               ex |-> [S.ex EXCEPT ![c] = [IdleExchange EXCEPT
                           !.method = method, !.nonce = nonce,
                           !.popup = popup, !.state = "pending"]]]
    IN IF nav = "throws"
       THEN enter(reject(enter(S1, c, "POPUP_ACQUIRED"), c, "SecurityError"),
                  c, "REJECTED")
       ELSE enter(enter([S1 EXCEPT !.ex[c].navigated = 1,
                                   !.ex[c].onMsg = TRUE,
                                   !.ex[c].onStorage = TRUE,
                                   !.ex[c].timer = TRUE,
                                   !.ex[c].deadline = t + timeoutMs],
                        c, "POPUP_ACQUIRED"),
                  c, "AWAITING_REPLY")

\* requestPopup(...) with `if (!popup) reject(...)` that does not return:
\* the blocked exchange is rejected and then listened and timed for
requestPopupBlockedArmed(S, c, method, nonce, timeoutMs, blocked, nav, t) ==
    LET pm1 == preOpenAmvaultPopup(S.pm, blocked)
        popup == pm1.sharedPopup
        S1 == [pm |-> pm1,
               ex |-> [S.ex EXCEPT ![c] = [IdleExchange EXCEPT
                           !.method = method, !.nonce = nonce,
                           !.popup = popup, !.state = "pending"]]]
        S2 == IF popup = NULL
              THEN enter(reject(S1, c, "Popup blocked"), c, "POPUP_BLOCKED")
              ELSE enter(enter([S1 EXCEPT !.ex[c].navigated = 1], c,
                               "POPUP_ACQUIRED"),
                         c, "AWAITING_REPLY")
    IN IF popup # NULL /\ nav = "throws"
       THEN enter(reject(enter(S1, c, "POPUP_ACQUIRED"), c, "SecurityError"),
                  c, "REJECTED")
       ELSE [S2 EXCEPT !.ex[c].onMsg = TRUE, !.ex[c].onStorage = TRUE,
                       !.ex[c].timer = TRUE,
                       !.ex[c].deadline = t + timeoutMs]

\* requestPopup(...): the promise executor, run synchronously by the caller.
\* `blocked`: window.open refused; `nav`: "href" (assignment works),
\* "assign" (assignment throws, location.assign works), "throws" (both throw)
requestPopup(S, c, method, nonce, timeoutMs, blocked, nav, t) ==
    LET pm1 == preOpenAmvaultPopup(S.pm, blocked)
        popup == pm1.sharedPopup
        S1 == [pm |-> pm1,
               ex |-> [S.ex EXCEPT ![c] = [IdleExchange EXCEPT
                           !.method = method, !.nonce = nonce,
                           !.popup = popup, !.state = "pending"]]]
    IN IF popup = NULL
       THEN enter(reject(S1, c, "Popup blocked"), c, "POPUP_BLOCKED")
       ELSE IF nav = "throws"
       THEN enter(reject(enter(S1, c, "POPUP_ACQUIRED"), c, "SecurityError"),
                  c, "REJECTED")
       ELSE enter(enter([S1 EXCEPT !.ex[c].navigated = 1,
                                   !.ex[c].onMsg = TRUE,
                                   !.ex[c].onStorage = TRUE,
                                   !.ex[c].timer = TRUE,
                                   !.ex[c].deadline = t + timeoutMs],
                        c, "POPUP_ACQUIRED"),
                  c, "AWAITING_REPLY")

\* the default of requestPopup's timeoutMs parameter
DefaultTimeoutMs == 120000

\* a ?? b on an optional number ({} is undefined)
Coalesce(opt, dflt) == IF opt = {} THEN dflt ELSE CHOOSE x \in opt : TRUE

(***************************************************************************)
(* Outcomes of calls: a returned value or a thrown error.  `code` is <<>>  *)
(* for an Error that carries no code property.                             *)
(***************************************************************************)
\* a JavaScript value a call returns: null, an array of strings, a string
\* (its pieces), or a signature
Val(tag, str, sig) == [tag |-> tag, str |-> str, sig |-> sig]
NullValue == Val("null", <<>>, NoSignature)
ArrayValue(strs) == Val("array", strs, NoSignature)
StringValue(chars) == Val("string", chars, NoSignature)
SigValue(sig) == Val("signature", <<>>, sig)

NoResult ==
    [kind |-> "none", value |-> NullValue, code |-> <<>>, message |-> ""]
Returned(v) == [kind |-> "ok", value |-> v, code |-> <<>>, message |-> ""]
Thrown(msg) ==
    [kind |-> "err", value |-> NullValue, code |-> <<>>, message |-> msg]

RPC_ERROR ==
    [USER_REJECTED |-> 4001, UNAUTHORIZED |-> 4100,
     UNSUPPORTED_METHOD |-> 4200, DISCONNECTED |-> 4900,
     CHAIN_DISCONNECTED |-> 4901, INTERNAL |-> -32603,
     INVALID_PARAMS |-> -32602, METHOD_NOT_FOUND |-> -32601]

\* rpcError(message, code)
rpcError(msg, code) ==
    [kind |-> "err", value |-> NullValue, code |-> <<code>>, message |-> msg]

\* which of the words reject / cancel / blocked a message of the model
\* contains, case-insensitively
WordsIn(msg) ==
    CASE msg \in {"Request rejected", "User rejected", "Sign rejected",
                  "Transaction rejected", "Sign-in rejected"} -> {"reject"}
      [] msg = "User cancelled" -> {"cancel"}
      [] msg = "Popup blocked" -> {"blocked"}
      [] OTHER -> {}
\* /w1|w2|.../i.test(msg)
RegexTest(words, msg) == WordsIn(msg) \cap words # {}

\* signMessage(): the code after `await openSignMessage(...)`
signMessageResult(e) ==
    IF e.state = "rejected" THEN Thrown(e.error)
    ELSE LET resp == e.value[1] IN
         IF ~resp.ok
         THEN Thrown(IF resp.error # "" THEN resp.error ELSE "Sign rejected")
         ELSE IF resp.signature = NoSignature
         THEN Thrown("No signature returned from AmVault")
         ELSE Returned(SigValue(resp.signature))

\* sendTransaction() returning resp.txHash without looking at the reply
sendTransactionResultUnchecked(e) ==
    IF e.state = "rejected" THEN Thrown(e.error)
    ELSE Returned(StringValue(<<e.value[1].txHash>>))

\* sendTransaction(): the code after `await requestPopup(...)`
sendTransactionResult(e) ==
    IF e.state = "rejected" THEN Thrown(e.error)
    ELSE LET resp == e.value[1] IN
         IF ~resp.ok
         THEN Thrown(IF resp.error # "" THEN resp.error
                     ELSE "Transaction rejected")
         ELSE IF resp.txHash = ""
         THEN Thrown("No txHash returned from AmVault")
         ELSE Returned(StringValue(<<resp.txHash>>))

\* request(): the catch blocks of personal_sign, eth_sign, eth_sendTransaction
wrapSignError(r) ==
    IF r.kind # "err" THEN r
    ELSE IF RegexTest({"reject", "cancel"}, r.message)
    THEN rpcError("User rejected the request", RPC_ERROR.USER_REJECTED)
    ELSE rpcError(r.message, RPC_ERROR.INTERNAL)

\* the result of a helper-backed call once its exchange e has settled
helperResult(api, e) ==
    CASE api = "signMessage" -> signMessageResult(e)
      [] api = "sendTransaction" -> sendTransactionResult(e)
      [] api \in {"personal_sign", "eth_sign"} ->
            wrapSignError(signMessageResult(e))
      [] api = "eth_sendTransaction" ->
            wrapSignError(sendTransactionResult(e))

(***************************************************************************)
(* eip1193/AmvaultEIP1193Provider.ts: the session helpers.                 *)
(***************************************************************************)
Session(ain, a, issued, expires) ==
    [ain |-> ain, address |-> a, issuedAt |-> issued, expiresAt |-> expires]

\* _loadSession() with `Date.now() > s.expiresAt`
_loadSessionLate(item, t) ==
    IF item.kind \in {"null", "empty"} THEN [session |-> <<>>, item |-> item]
    ELSE LET parsed == JSONparse(item) IN
         IF parsed.threw \/ parsed.data = <<>>
         THEN [session |-> <<>>, item |-> item]
         ELSE IF t > parsed.data[1].expiresAt
         THEN [session |-> <<>>, item |-> NullText]
         ELSE [session |-> parsed.data, item |-> item]

\* _loadSession() with removeItem in the catch block
_loadSessionEvicting(item, t) ==
    IF item.kind \in {"null", "empty"} THEN [session |-> <<>>, item |-> item]
    ELSE LET parsed == JSONparse(item) IN
         IF parsed.threw \/ parsed.data = <<>>
         THEN [session |-> <<>>, item |-> NullText]
         ELSE IF t >= parsed.data[1].expiresAt
         THEN [session |-> <<>>, item |-> NullText]
         ELSE [session |-> parsed.data, item |-> item]

\* _loadSession() that extends the session it reads by the default
\* lifetime
_loadSessionRefreshing(item, t) ==
    IF item.kind \in {"null", "empty"} THEN [session |-> <<>>, item |-> item]
    ELSE LET parsed == JSONparse(item) IN
         IF parsed.threw \/ parsed.data = <<>>
         THEN [session |-> <<>>, item |-> item]
         ELSE IF t >= parsed.data[1].expiresAt
         THEN [session |-> <<>>, item |-> NullText]
         ELSE [session |-> parsed.data,
               item |-> JSONstringify(
                   [parsed.data[1] EXCEPT !.expiresAt = t + 86400000])]

\* _loadSession(): [session, item]; session is <<>> for null, item is what
\* the storage key holds afterwards
_loadSession(item, t) ==
    IF item.kind \in {"null", "empty"} THEN [session |-> <<>>, item |-> item]
    ELSE LET parsed == JSONparse(item) IN
         IF parsed.threw \/ parsed.data = <<>>
         THEN [session |-> <<>>, item |-> item]
         ELSE IF t >= parsed.data[1].expiresAt
         THEN [session |-> <<>>, item |-> NullText]
         ELSE [session |-> parsed.data, item |-> item]

\* _saveSession(session) that stores nothing
_saveSessionDropped(session) == NullText

\* _saveSession(session)
_saveSession(session) == JSONstringify(session)

\* _clearSession()
_clearSession == NullText

\* the default of config.sessionTtlMs
DefaultSessionTtlMs == 86400000

\* ethers verifyMessage(message, signature): [threw, address]
verifyMessage(m, sig) ==
    IF sig = NoSignature THEN [threw |-> TRUE, address |-> ""]
    ELSE IF sig.over = m THEN [threw |-> FALSE, address |-> sig.by]
    ELSE [threw |-> FALSE, address |-> "0x0000"]

\* Number.prototype.toString(16) as a sequence of digits
HexDigits == <<"0", "1", "2", "3", "4", "5", "6", "7", "8", "9",
               "a", "b", "c", "d", "e", "f">>
RECURSIVE toString16(_)
toString16(n) ==
    IF n < 16 THEN <<HexDigits[n + 1]>>
    ELSE toString16(n \div 16) \o <<HexDigits[(n % 16) + 1]>>

\* String(n) as a sequence of digits
RECURSIVE toString10(_)
toString10(n) ==
    IF n < 10 THEN <<HexDigits[n + 1]>>
    ELSE toString10(n \div 10) \o <<HexDigits[(n % 10) + 1]>>

\* '0x' + chainId.toString(16)
chainIdHex == <<"0", "x">> \o toString16(Config.chainId)

\* one emission `this._emit(event, arg)`, as the emitting operation
\* requests it
Emission(event, arg) == [event |-> event, arg |-> arg]

\* `resp.address.toLowerCase()` on a reply without an address: the
\* TypeError of reading a property of undefined
TypeErrorText == "Cannot read properties of undefined"

\* the error of the library when verifyMessage is given no signature
InvalidSignatureText == "invalid signature"

\* a message string that holds only white space
BlankMessage == <<" ">>

\* String.prototype.trim on the messages of the model
trim(m) == IF m = BlankMessage THEN <<>> ELSE m

\* lines 158-159 always choosing the message the client sent
messageToVerifySent(resp, msg) == msg

\* lines 158-159: `typeof resp.message === 'string' && resp.message.trim()
\* ? resp.message : msg` (<<>> is a reply without a message)
messageToVerify(resp, msg) ==
    IF resp.message # <<>> /\ trim(resp.message) # <<>> THEN resp.message
    ELSE msg

\* eth_requestAccounts, lines 156-175, without any of the checks
verifyReplyNone(resp, nonce, msg) == <<>>

\* eth_requestAccounts, lines 156-175, with the nonce compared before the
\* signature is verified
verifyReplyNonceFirst(resp, nonce, msg) ==
    LET toVerify == messageToVerify(resp, msg)
        v == verifyMessage(toVerify, resp.signature)
    IN
    IF resp.nonce # nonce
    THEN <<rpcError("Nonce mismatch", RPC_ERROR.INTERNAL)>>
    ELSE IF v.threw THEN <<Thrown(InvalidSignatureText)>>
    ELSE IF resp.address = "" THEN <<Thrown(TypeErrorText)>>
    ELSE IF toLowerCase(v.address) # toLowerCase(resp.address)
    THEN <<rpcError("Signature verification failed", RPC_ERROR.INTERNAL)>>
    ELSE IF resp.chainId # Config.chainId
    THEN <<rpcError("Wrong network", RPC_ERROR.CHAIN_DISCONNECTED)>>
    ELSE <<>>

\* eth_requestAccounts, lines 156-175: the verification of the reply resp
\* to the request that carried nonce and the message msg; <<the error
\* thrown>>, or <<>> when the reply passes
verifyReply(resp, nonce, msg) ==
    LET toVerify == messageToVerify(resp, msg)
        v == verifyMessage(toVerify, resp.signature)
    IN
    IF v.threw THEN <<Thrown(InvalidSignatureText)>>
    ELSE IF resp.address = "" THEN <<Thrown(TypeErrorText)>>
    ELSE IF toLowerCase(v.address) # toLowerCase(resp.address)
    THEN <<rpcError("Signature verification failed", RPC_ERROR.INTERNAL)>>
    ELSE IF resp.nonce # nonce
    THEN <<rpcError("Nonce mismatch", RPC_ERROR.INTERNAL)>>
    ELSE IF resp.chainId # Config.chainId
    THEN <<rpcError("Wrong network", RPC_ERROR.CHAIN_DISCONNECTED)>>
    ELSE <<>>

\* eth_requestAccounts: the code after `await openSignin(...)`, lines
\* 145-201: [result, save, emits]; save is <<>> or <<session to store>>,
\* emits the emissions that follow the save
requestAccountsFinish(e, t, ttlOpt) ==
    LET nonce == e.nonce
        msg == _buildMessage(nonce)
        fail(r) == [result |-> r, save |-> <<>>, emits |-> <<>>]
        failed == verifyReply(e.value[1], nonce, msg)
    IN
    IF e.state = "rejected"
    THEN IF RegexTest({"reject", "cancel", "blocked"}, e.error)
         THEN fail(rpcError("User rejected the request",
                            RPC_ERROR.USER_REJECTED))
         ELSE fail(rpcError(e.error, RPC_ERROR.INTERNAL))
    ELSE LET resp == e.value[1] IN
         IF ~resp.ok
         THEN fail(rpcError(IF resp.error # "" THEN resp.error
                            ELSE "Sign-in rejected",
                            RPC_ERROR.USER_REJECTED))
         ELSE IF failed # <<>> THEN fail(failed[1])
         ELSE LET ttl == Coalesce(ttlOpt, DefaultSessionTtlMs)
                  session == Session(<<"ain-", resp.address>>, resp.address,
                                     t, t + ttl)
                  accounts == <<toLowerCase(resp.address)>>
              IN [result |-> Returned(ArrayValue(accounts)),
                  save |-> <<session>>,
                  emits |-> <<Emission("accountsChanged", accounts),
                              Emission("connect", chainIdHex)>>]


(***************************************************************************)
(* wallet_switchEthereumChain / wallet_addEthereumChain: parseInt(s, 16).  *)
(* A string is a sequence of characters; <<>> as a parameter is a missing  *)
(* chainId.  parseInt returns <<>> for NaN and <<n>> for the number n.     *)
(***************************************************************************)
HexDigitValue(ch) ==
    CASE ch = "0" -> 0 [] ch = "1" -> 1 [] ch = "2" -> 2 [] ch = "3" -> 3
      [] ch = "4" -> 4 [] ch = "5" -> 5 [] ch = "6" -> 6 [] ch = "7" -> 7
      [] ch = "8" -> 8 [] ch = "9" -> 9
      [] ch \in {"a", "A"} -> 10 [] ch \in {"b", "B"} -> 11
      [] ch \in {"c", "C"} -> 12 [] ch \in {"d", "D"} -> 13
      [] ch \in {"e", "E"} -> 14 [] ch \in {"f", "F"} -> 15
      [] OTHER -> 16
IsHexDigit(ch) == HexDigitValue(ch) < 16

\* the digits parseInt consumes: the longest prefix of hexadecimal digits
RECURSIVE hexPrefixValue(_, _, _)
hexPrefixValue(str, i, acc) ==
    IF i > Len(str) \/ ~IsHexDigit(str[i]) THEN acc
    ELSE hexPrefixValue(str, i + 1, acc * 16 + HexDigitValue(str[i]))

\* parseInt(str, 16)
parseInt16(str) ==
    LET body == IF Len(str) >= 2 /\ str[1] = "0" /\ str[2] \in {"x", "X"}
                THEN SubSeq(str, 3, Len(str)) ELSE str
    IN IF body = <<>> \/ ~IsHexDigit(body[1]) THEN <<>>
       ELSE <<hexPrefixValue(body, 1, 0)>>

\* the chain branches of request() without the comparison
chainRequestAny(param, mismatchCode) == Returned(NullValue)

\* the chain branches of request(): parseInt(p[0]?.chainId ?? '0', 16)
\* compared with the configured chain id; the code thrown on a mismatch
chainRequest(param, mismatchCode) ==
    LET requestedId == parseInt16(IF param = <<>> THEN <<"0">> ELSE param)
    IN IF requestedId # <<Config.chainId>>
       THEN rpcError("AmVault only supports this chainId", mismatchCode)
       ELSE Returned(NullValue)

\* case 'wallet_switchEthereumChain' throwing the code of the add branch
switchEthereumChainUnsupported(param) ==
    chainRequest(param, RPC_ERROR.UNSUPPORTED_METHOD)

\* case 'wallet_switchEthereumChain'
switchEthereumChain(param) ==
    chainRequest(param, RPC_ERROR.CHAIN_DISCONNECTED)

\* case 'wallet_addEthereumChain'
addEthereumChain(param) ==
    chainRequest(param, RPC_ERROR.UNSUPPORTED_METHOD)

\* chainId parameters the application passes
ChainIdParams ==
    {<<>>, <<"0", "x">>, <<"0", "x", "1", "0">>, <<"0", "X", "1", "0">>,
     <<"0", "x", "0", "1", "0">>, <<"0", "x", "1">>, <<"0", "x", "a">>,
     <<"0", "x", "1", "6">>, <<"1", "0">>, <<"1", "6">>,
     <<"0", "x", "1", "0", "0">>, <<"0", "x", "f", "F">>,
     <<"0", "x", "1", "0", "z">>, <<"0", "x", "z">>}

(***************************************************************************)
(* request(): what each method does before any popup is opened.            *)
(* [done, result, item]: done is FALSE when the method goes on to open the *)
(* popup; item is the stored session item afterwards.                      *)
(***************************************************************************)
Methods ==
    {"eth_chainId", "net_version", "eth_accounts", "eth_requestAccounts",
     "personal_sign", "eth_sign", "eth_sendTransaction",
     "wallet_switchEthereumChain", "wallet_addEthereumChain",
     "eth_getBalance", "eth_call", "ETH_CHAINID"}
PopupMethods ==
    {"eth_requestAccounts", "personal_sign", "eth_sign", "eth_sendTransaction"}

NotConnected ==
    rpcError("Not connected. Call eth_requestAccounts first.",
             RPC_ERROR.UNAUTHORIZED)

\* `if (!session) throw rpcError(...)` without the test
sessionGateOpen(session) == <<>>

\* `if (!session) throw rpcError('Not connected...', UNAUTHORIZED)` of
\* personal_sign, eth_sign and eth_sendTransaction: <<the error thrown>>,
\* or <<>> when the call goes on
sessionGate(session) == IF session = <<>> THEN <<NotConnected>> ELSE <<>>

\* `if (existing) return [...]` of eth_requestAccounts without the test
existingAccountsNone(session) == <<>>

\* `if (existing) return [existing.address.toLowerCase()]` of
\* eth_requestAccounts: <<the value returned>>, or <<>> when the call goes on
existingAccounts(session) ==
    IF session # <<>>
    THEN <<Returned(ArrayValue(<<toLowerCase(session[1].address)>>))>>
    ELSE <<>>

\* the `default:` branch throwing the method-not-found code
unsupportedMethodNotFound ==
    rpcError("AmVault does not support method", RPC_ERROR.METHOD_NOT_FOUND)

\* the `default:` branch of the switch on the method
unsupportedMethod ==
    rpcError("AmVault does not support method", RPC_ERROR.UNSUPPORTED_METHOD)

\* params: [chainId: the chainId parameter, txValid: p[0] is an object];
\* raw: <<what localStorage.getItem returned>> when the method loads the
\* session, <<>> when it does not
requestSync(method, params, item, t) ==
    LET ld == _loadSession(item, t)
        gate == sessionGate(ld.session)
        existing == existingAccounts(ld.session)
        pure(r) == [done |-> TRUE, result |-> r, item |-> item, raw |-> <<>>]
        sync(r) ==
            [done |-> TRUE, result |-> r, item |-> ld.item, raw |-> <<item>>]
        popup ==
            [done |-> FALSE, result |-> NoResult, item |-> ld.item,
             raw |-> <<item>>]
    IN
    CASE method = "eth_chainId" ->
            pure(Returned(StringValue(chainIdHex)))
      [] method = "net_version" ->
            pure(Returned(StringValue(toString10(Config.chainId))))
      [] method = "eth_accounts" ->
            sync(Returned(ArrayValue(
                     IF ld.session # <<>>
                     THEN <<toLowerCase(ld.session[1].address)>>
                     ELSE <<>>)))
      [] method = "eth_requestAccounts" ->
            IF existing # <<>> THEN sync(existing[1]) ELSE popup
      [] method \in {"personal_sign", "eth_sign"} ->
            IF gate # <<>> THEN sync(gate[1]) ELSE popup
      [] method = "eth_sendTransaction" ->
            IF gate # <<>> THEN sync(gate[1])
            ELSE IF ~params.txValid
            THEN sync(rpcError("Invalid transaction object",
                               RPC_ERROR.INVALID_PARAMS))
            ELSE popup
      [] method = "wallet_switchEthereumChain" ->
            pure(switchEthereumChain(params.chainId))
      [] method = "wallet_addEthereumChain" ->
            pure(addEthereumChain(params.chainId))
      [] OTHER -> pure(unsupportedMethod)

NoParams == [chainId |-> <<>>, txValid |-> TRUE]
\* the parameters the application passes with each method
ParamsOf(method) ==
    IF method \in {"wallet_switchEthereumChain", "wallet_addEthereumChain"}
    THEN {[NoParams EXCEPT !.chainId = h] : h \in ChainIdParams}
    ELSE IF method = "eth_sendTransaction"
    THEN {[NoParams EXCEPT !.txValid = v] : v \in BOOLEAN}
    ELSE {NoParams}

\* the exchange a popup-mediated entry point runs
methodOf(api) ==
    CASE api = "eth_requestAccounts" -> "signin"
      [] api \in {"personal_sign", "eth_sign", "signMessage"} -> "sign_message"
      [] api \in {"eth_sendTransaction", "sendTransaction"} ->
            "eth_sendTransaction"

\* `opts.timeoutMs ?? 120000` of sendTransaction
SendTxDefaultTimeoutMs == 120000

\* the deadline requestPopup is given by the entry point api called with
\* opts.timeoutMs = timeoutOpt
timeoutOf(api, timeoutOpt) ==
    IF api \in {"eth_sendTransaction", "sendTransaction"}
    THEN Coalesce(timeoutOpt, SendTxDefaultTimeoutMs)
    ELSE DefaultTimeoutMs


(***************************************************************************)
(* eip1193/AmvaultEIP1193Provider.ts: the event emitter.  The registry     *)
(* maps each event name to its Set of listeners; a Set iterates in the     *)
(* order of insertion, so it is a sequence without repetitions.  A         *)
(* listener is a function of the application: it observes its arguments    *)
(* and the stored session item, and returns or throws.                     *)
(***************************************************************************)
\* keyof EIP1193EventMap
EIP1193EventMap ==
    {"accountsChanged", "chainChanged", "connect", "disconnect", "message"}

\* the listener functions of the application; those of ThrowingListeners
\* throw whenever they are called
Listeners == {"f", "g"}
ThrowingListeners == {"g"}

\* `_listeners = {}` of the constructor
NoListeners == [e \in EIP1193EventMap |-> <<>>]

IsMember(x, seq) == \E i \in DOMAIN seq : seq[i] = x

\* Set.prototype.add
SetAdd(seq, x) == IF IsMember(x, seq) THEN seq ELSE Append(seq, x)
\* Set.prototype.delete
SetDelete(seq, x) == SelectSeq(seq, LAMBDA y : y # x)

\* on(event, listener) keeping the listeners in an array: push
onPush(ls, event, listener) == [ls EXCEPT ![event] = Append(@, listener)]

\* on(event, listener)
on(ls, event, listener) == [ls EXCEPT ![event] = SetAdd(@, listener)]

\* removeListener(event, listener)
removeListener(ls, event, listener) ==
    [ls EXCEPT ![event] = SetDelete(@, listener)]

\* off(event, listener)
off(ls, event, listener) == removeListener(ls, event, listener)

\* one call of a listener, as the listener observes it
Invocation(listener, event, arg, item) ==
    [listener |-> listener, event |-> event, arg |-> arg, stored |-> item]

\* _emit(event, arg) with `fn(...args)` outside a try block: the first
\* listener that throws ends the forEach and the exception leaves _emit
RECURSIVE _emitUnprotected(_, _, _, _)
_emitUnprotected(ls, event, arg, item) ==
    LET fns == ls[event] IN
    IF fns = <<>> THEN [invoked |-> <<>>, threw |-> FALSE]
    ELSE IF fns[1] \in ThrowingListeners
    THEN [invoked |-> <<Invocation(fns[1], event, arg, item)>>,
          threw |-> TRUE]
    ELSE LET rest == _emitUnprotected([ls EXCEPT ![event] = Tail(fns)],
                                      event, arg, item)
         IN [invoked |-> <<Invocation(fns[1], event, arg, item)>>
                         \o rest.invoked,
             threw |-> rest.threw]

\* _emit(event, arg): [invoked, threw]; invoked is the calls of listeners
\* made, in order; threw tells whether an exception leaves _emit.  item is
\* what the session key holds while the listeners run
_emit(ls, event, arg, item) ==
    [invoked |-> [i \in DOMAIN ls[event] |->
                     Invocation(ls[event][i], event, arg, item)],
     threw |-> FALSE]

\* the statements `this._emit(e1, a1); this._emit(e2, a2); ...` run with
\* the session key holding item: [emits, invoked, threw]; an exception
\* leaving one _emit skips the statements after it
RECURSIVE emitAll(_, _, _)
emitAll(ls, emissions, item) ==
    IF emissions = <<>>
    THEN [emits |-> <<>>, invoked |-> <<>>, threw |-> FALSE]
    ELSE LET first == _emit(ls, emissions[1].event, emissions[1].arg, item)
             rest == IF first.threw
                     THEN [emits |-> <<>>, invoked |-> <<>>, threw |-> TRUE]
                     ELSE emitAll(ls, Tail(emissions), item)
         IN [emits |-> <<emissions[1]>> \o rest.emits,
             invoked |-> first.invoked \o rest.invoked,
             threw |-> rest.threw]

\* what a listener that threw out of _emit makes the emitting call do
ListenerError == Thrown("listener threw")

\* eth_requestAccounts, lines 197-201, with the two _emit statements
\* before _saveSession
signInEffectsEmitFirst(f, ls, item) ==
    IF f.save = <<>>
    THEN [item |-> item, result |-> f.result, emits |-> <<>>,
          invoked |-> <<>>]
    ELSE LET e == emitAll(ls, f.emits, item)
         IN [item |-> _saveSession(f.save[1]),
             result |-> IF e.threw THEN ListenerError ELSE f.result,
             emits |-> e.emits, invoked |-> e.invoked]

\* disconnect() without _clearSession()
disconnectNotClearing(ls, item) ==
    LET e == emitAll(ls, <<Emission("accountsChanged", <<>>),
                           Emission("disconnect", <<>>)>>, item)
    IN [item |-> item,
        result |-> IF e.threw THEN ListenerError ELSE Returned(NullValue),
        emits |-> e.emits, invoked |-> e.invoked]

\* eth_requestAccounts, lines 197-201, for the outcome f of the
\* verification, run with the session key holding item:
\* [item, result, emits, invoked]
signInEffects(f, ls, item) ==
    IF f.save = <<>>
    THEN [item |-> item, result |-> f.result, emits |-> <<>>,
          invoked |-> <<>>]
    ELSE LET saved == _saveSession(f.save[1])
             e == emitAll(ls, f.emits, saved)
         IN [item |-> saved,
             result |-> IF e.threw THEN ListenerError ELSE f.result,
             emits |-> e.emits, invoked |-> e.invoked]

\* disconnect(): [item, result, emits, invoked]
disconnect(ls, item) ==
    LET cleared == _clearSession
        e == emitAll(ls, <<Emission("accountsChanged", <<>>),
                           Emission("disconnect", <<>>)>>, cleared)
    IN [item |-> cleared,
        result |-> IF e.threw THEN ListenerError ELSE Returned(NullValue),
        emits |-> e.emits, invoked |-> e.invoked]

(***************************************************************************)
(* The state machine.                                                      *)
(***************************************************************************)
IdleCall == [api |-> "none", phase |-> "idle", result |-> NoResult]
NoLast ==
    [op |-> "none", params |-> NoParams, raw |-> <<>>, result |-> NoResult,
     emits |-> <<>>, invoked |-> <<>>, reg |-> <<>>]

\* the outcome of on / removeListener / off called with (event, listener)
\* on the registry `before`
Registration(op, event, listener, before) ==
    [NoLast EXCEPT !.op = op, !.result = Returned(NullValue),
                   !.reg = <<[event |-> event, listener |-> listener,
                              before |-> before]>>]

\* sessions a previous page load may have left in storage
StoredItems ==
    {NullText, GarbageText,
     JSONstringify(Session(<<"ain-", AddrB>>, AddrB, 0, 0)),
     JSONstringify(Session(<<"ain-", AddrB>>, AddrB, 0, 2 * TickMs))}

Init ==
    /\ now = 0
    /\ sessionTtlMs \in {{}, {2 * TickMs}}
    /\ localStorage \in StoredItems
    /\ sharedPopup = NULL
    /\ overlayEl = NULL
    /\ isClosing = FALSE
    /\ closePending = FALSE
    /\ windows = [w \in Slots |-> "unopened"]
    /\ domOverlays = 0
    /\ unloadHooks = 0
    /\ ex = [c \in Slots |-> IdleExchange]
    /\ seen = [c \in Slots |-> {}]
    /\ call = [c \in Slots |-> IdleCall]
    /\ _listeners = NoListeners
    /\ signedIn = <<>>
    /\ last = NoLast

\* the popup module's variables take the values of the record p
SetPM(p) ==
    /\ sharedPopup' = p.sharedPopup
    /\ overlayEl' = p.overlayEl
    /\ isClosing' = p.isClosing
    /\ closePending' = p.closePending
    /\ windows' = p.windows
    /\ domOverlays' = p.domOverlays
    /\ unloadHooks' = p.unloadHooks

\* the microtask checkpoint at the end of a handler: closeSharedPopup()
\* called by cleanup() resumes
checkpoint(S) == [S EXCEPT !.pm = closeSharedPopupResume(@)]

\* the continuation of the call k awaiting the exchange e: helper-backed
\* calls finish as soon as the exchange settles; eth_requestAccounts
\* finishes at once on a rejected exchange or a reply without ok, and
\* otherwise suspends at `await import('ethers')`
continueCall(k, e, t, ttlOpt) ==
    IF k.phase # "awaiting" \/ e.state \notin {"resolved", "rejected"} THEN k
    ELSE IF k.api # "eth_requestAccounts"
    THEN [k EXCEPT !.phase = "done", !.result = helperResult(k.api, e)]
    ELSE IF e.state = "rejected" \/ ~e.value[1].ok
    THEN [k EXCEPT !.phase = "done",
                   !.result = requestAccountsFinish(e, t, ttlOpt).result]
    ELSE [k EXCEPT !.phase = "verifying"]

\* a reply of the shape that fulfils a request of the method
familyMatch(method, type) ==
    \/ method \in {"signin", "sign_message"} /\ type = "amvault:auth"
    \/ method = "eth_sendTransaction" /\ type = "amvault:tx"

\* the message event ev carries a valid matching reply to the exchange e
validMessage(e, ev) ==
    /\ e.state # "idle" /\ e.popup # NULL
    /\ ev.origin = AmvaultUrl.origin /\ ev.source = e.popup
    /\ ev.data # <<>> /\ familyMatch(e.method, ev.data[1].type)

\* the storage event ev carries a valid matching reply to the exchange e
validStorage(e, ev) ==
    /\ e.state # "idle" /\ e.popup # NULL
    /\ ev.key \in STORAGE_FALLBACK_KEYS
    /\ ev.newValue.kind = "json" /\ ev.newValue.value # <<>>
    /\ familyMatch(e.method, ev.newValue.value[1].type)

\* Date.now() advances
Tick ==
    /\ ~closePending
    /\ now + TickMs <= MaxNow
    /\ now' = now + TickMs
    /\ last' = NoLast
    /\ UNCHANGED <<sessionTtlMs, localStorage, popupVars, ex, seen, call,
                   provVars>>

\* request({method, params}) for a call that completes without a popup
RequestSync(method, params) ==
    LET r == requestSync(method, params, localStorage, now) IN
    /\ r.done
    /\ localStorage' = r.item
    /\ last' = [op |-> method, params |-> params, raw |-> r.raw,
                result |-> r.result, emits |-> <<>>, invoked |-> <<>>,
                reg |-> <<>>]
    /\ UNCHANGED <<now, sessionTtlMs, popupVars, ex, seen, call, provVars>>

\* a popup-mediated entry point: request() with one of the PopupMethods, or
\* the exported helpers signMessage / sendTransaction called directly
StartCall(c, api, params, timeoutOpt, blocked, nav) ==
    LET r == IF api \in PopupMethods
             THEN requestSync(api, params, localStorage, now)
             ELSE [done |-> FALSE, result |-> NoResult, item |-> localStorage,
                   raw |-> <<>>]
        timeoutMs == timeoutOf(api, timeoutOpt)
        S == requestPopup([pm |-> PM, ex |-> ex], c, methodOf(api), c,
                          timeoutMs, blocked, nav, now)
    IN
    /\ call[c].api = "none"
    /\ \A d \in Slots : d < c => call[d].api # "none"
    /\ now + timeoutMs <= MaxNow
    /\ ~r.done
    /\ localStorage' = r.item
    /\ SetPM(S.pm)
    /\ ex' = S.ex
    /\ call' = [call EXCEPT ![c] = continueCall(
                   [IdleCall EXCEPT !.api = api, !.phase = "awaiting"],
                   S.ex[c], now, sessionTtlMs)]
    /\ last' = NoLast
    /\ UNCHANGED <<now, sessionTtlMs, seen, provVars>>

\* the browser dispatches one event to the registered listeners, in the
\* order of registration, with a microtask checkpoint after each
RECURSIVE dispatchMessage(_, _, _)
dispatchMessage(S, ev, c) ==
    IF c > MaxCalls THEN S
    ELSE dispatchMessage(
             IF S.ex[c].onMsg THEN checkpoint(onMsg(S, c, ev)) ELSE S,
             ev, c + 1)

RECURSIVE dispatchStorage(_, _, _)
dispatchStorage(S, ev, c) ==
    IF c > MaxCalls THEN S
    ELSE dispatchStorage(
             IF S.ex[c].onStorage THEN checkpoint(onStorage(S, c, ev)) ELSE S,
             ev, c + 1)

\* the state after a task that left the exchanges as in S
AfterTask(S) ==
    /\ SetPM(S.pm)
    /\ ex' = S.ex
    /\ call' = [c \in Slots |->
                   continueCall(call[c], S.ex[c], now, sessionTtlMs)]

\* a 'message' event reaches the page
DeliverMessage(ev) ==
    /\ ~closePending
    /\ AfterTask(dispatchMessage([pm |-> PM, ex |-> ex], ev, 1))
    /\ last' = NoLast
    /\ UNCHANGED <<now, sessionTtlMs, localStorage, provVars>>

\* a 'storage' event reaches the page
DeliverStorage(ev) ==
    /\ ~closePending
    /\ AfterTask(dispatchStorage([pm |-> PM, ex |-> ex], ev, 1))
    /\ last' = NoLast
    /\ UNCHANGED <<now, sessionTtlMs, localStorage, provVars>>

MessageEvent(ev) == DeliverMessage(ev) /\ UNCHANGED seen
StorageEvent(ev) == DeliverStorage(ev) /\ UNCHANGED seen

\* the same events, with a record of the channels that have carried a
\* valid matching reply to each exchange
TrackedMessageEvent(ev) ==
    /\ DeliverMessage(ev)
    /\ seen' = [c \in Slots |->
                   IF validMessage(ex[c], ev) THEN seen[c] \cup {"message"}
                   ELSE seen[c]]

TrackedStorageEvent(ev) ==
    /\ DeliverStorage(ev)
    /\ seen' = [c \in Slots |->
                   IF validStorage(ex[c], ev) THEN seen[c] \cup {"storage"}
                   ELSE seen[c]]

\* the deadline timer of call c fires
TimerFire(c) ==
    /\ ~closePending
    /\ ex[c].timer
    /\ now >= ex[c].deadline
    /\ AfterTask(checkpoint(onTimeout([pm |-> PM, ex |-> ex], c)))
    /\ last' = NoLast
    /\ UNCHANGED <<now, sessionTtlMs, localStorage, seen, provVars>>

\* eth_requestAccounts resumes after `await import('ethers')`
ResumeRequestAccounts(c) ==
    LET f == requestAccountsFinish(ex[c], now, sessionTtlMs)
        d == signInEffects(f, _listeners, localStorage)
    IN
    /\ ~closePending
    /\ call[c].phase = "verifying"
    /\ call' = [call EXCEPT ![c].phase = "done", ![c].result = d.result]
    /\ localStorage' = d.item
    /\ signedIn' = signedIn \o f.save
    /\ last' = [op |-> "eth_requestAccounts", params |-> NoParams,
                raw |-> <<>>, result |-> d.result, emits |-> d.emits,
                invoked |-> d.invoked, reg |-> <<>>]
    /\ UNCHANGED <<now, sessionTtlMs, popupVars, ex, seen, _listeners>>

\* disconnect()
Disconnect ==
    LET d == disconnect(_listeners, localStorage) IN
    /\ localStorage' = d.item
    /\ signedIn' = <<>>
    /\ last' = [op |-> "disconnect", params |-> NoParams, raw |-> <<>>,
                result |-> d.result, emits |-> d.emits,
                invoked |-> d.invoked, reg |-> <<>>]
    /\ UNCHANGED <<now, sessionTtlMs, popupVars, ex, seen, call,
                   _listeners>>

\* on(event, listener)
On(event, listener) ==
    /\ _listeners' = on(_listeners, event, listener)
    /\ last' = Registration("on", event, listener, _listeners)
    /\ UNCHANGED <<now, sessionTtlMs, localStorage, popupVars, ex, seen,
                   call, signedIn>>

\* removeListener(event, listener)
RemoveListener(event, listener) ==
    /\ _listeners' = removeListener(_listeners, event, listener)
    /\ last' = Registration("removeListener", event, listener, _listeners)
    /\ UNCHANGED <<now, sessionTtlMs, localStorage, popupVars, ex, seen,
                   call, signedIn>>

\* off(event, listener)
Off(event, listener) ==
    /\ _listeners' = off(_listeners, event, listener)
    /\ last' = Registration("off", event, listener, _listeners)
    /\ UNCHANGED <<now, sessionTtlMs, localStorage, popupVars, ex, seen,
                   call, signedIn>>

\* the application calls the exported closeSharedPopup()
AppCloseSharedPopup ==
    /\ SetPM(closeSharedPopup(PM))
    /\ last' = NoLast
    /\ UNCHANGED <<now, sessionTtlMs, localStorage, ex, seen, call, provVars>>

\* closeSharedPopup() resumes after its await
CloseSharedPopupResume ==
    /\ closePending
    /\ SetPM(closeSharedPopupResume(PM))
    /\ last' = NoLast
    /\ UNCHANGED <<now, sessionTtlMs, localStorage, ex, seen, call, provVars>>

\* the user, or the signer application, closes the popup window w
PopupClosed(w) ==
    /\ ~closePending
    /\ windows[w] = "open"
    /\ windows' = [windows EXCEPT ![w] = "closed"]
    /\ UNCHANGED <<now, sessionTtlMs, localStorage, sharedPopup, overlayEl,
                   isClosing, closePending, domOverlays, unloadHooks, ex,
                   seen, call, provVars>>
    /\ last' = NoLast

\* beforeunload fires (and the page stays): every registered hook runs once
RECURSIVE runHooks(_, _)
runHooks(p, n) == IF n = 0 THEN p ELSE runHooks(beforeunloadHook(p), n - 1)

Beforeunload ==
    /\ ~closePending
    /\ unloadHooks > 0
    /\ SetPM([runHooks(PM, unloadHooks) EXCEPT !.unloadHooks = 0])
    /\ last' = NoLast
    /\ UNCHANGED <<now, sessionTtlMs, localStorage, ex, seen, call, provVars>>

(***************************************************************************)
(* Spec: the protocol client and the popup resource, driven through the    *)
(* exported helpers, with every event the browser can deliver.             *)
(***************************************************************************)
TimeoutOpts == {{}, {TickMs}}

\* message events: every reply from the signer's origin, from every window
\* and from no window; replies that would settle, from another origin
ClientMessageEvents ==
    MessageEventsOf({AmvaultUrl.origin}, 0..MaxCalls, ClientReplies)
    \cup MessageEventsOf({EvilOrigin}, Slots, ClientReplies \ OtherReplies)

\* storage events: every value under the fallback keys; replies that would
\* settle, under another key and under no key
ClientStorageEvents ==
    StorageEventsOf(STORAGE_FALLBACK_KEYS, ClientReplies)
    \cup {ev \in StorageEventsOf({"", "amvault.session"},
                                 ClientReplies \ OtherReplies) :
              ev.newValue.kind = "json" /\ ev.newValue.value # <<>>}

InitClient ==
    /\ Init
    /\ sessionTtlMs = {}
    /\ localStorage = NullText

Next ==
    \/ Tick
    \/ \E c \in Slots, api \in {"signMessage", "sendTransaction"},
          o \in TimeoutOpts, b \in BOOLEAN,
          nav \in {"href", "assign", "throws"} :
            StartCall(c, api, NoParams, o, b, nav)
    \/ \E ev \in ClientMessageEvents : MessageEvent(ev)
    \/ \E ev \in ClientStorageEvents : StorageEvent(ev)
    \/ \E c \in Slots : TimerFire(c)
    \/ AppCloseSharedPopup
    \/ CloseSharedPopupResume
    \/ \E w \in Slots : PopupClosed(w)
    \/ Beforeunload

Spec == InitClient /\ [][Next]_vars

\* Spec with the scheduling of the page: a suspended async function
\* resumes; time passes and a timer whose delay has elapsed runs its
\* callback, however often other tasks and their microtasks come in between
LiveSpec ==
    /\ Spec
    /\ WF_vars(CloseSharedPopupResume)
    /\ SF_vars(Tick)
    /\ \A c \in Slots : SF_vars(TimerFire(c))

(***************************************************************************)
(* ProviderSpec: the EIP-1193 provider on top of the protocol client; the  *)
(* signer application answers on the message channel.                      *)
(***************************************************************************)
\* what the signer application answers to the provider's requests
ProviderReplies ==
    {GoodAuth(1, AddrA), GoodAuth(2, AddrA), GoodAuth(2, AddrB),
     [GoodAuth(1, AddrA) EXCEPT !.nonce = 0],
     Reply("amvault:auth", FALSE, "", NoSignature, <<>>, 0, 0, "",
           "User cancelled"),
     Reply("amvault:tx", TRUE, "", NoSignature, <<>>, 0, Config.chainId,
           "0xhash", "")}

InitProvider ==
    /\ Init
    /\ localStorage \in {NullText, GarbageText,
           JSONstringify(Session(<<"ain-", AddrB>>, AddrB, 0, 2 * TickMs))}

ProviderNext ==
    \/ Tick
    \/ \E m \in PopupMethods \cup {"eth_accounts"} :
          \E p \in ParamsOf(m) : RequestSync(m, p)
    \/ \E c \in Slots, api \in PopupMethods, b \in BOOLEAN :
            StartCall(c, api, NoParams, {}, b, "href")
    \/ \E ev \in MessageEventsOf({AmvaultUrl.origin}, Slots,
                                   ProviderReplies) :
            MessageEvent(ev)
    \/ \E c \in Slots : TimerFire(c)
    \/ \E c \in Slots : ResumeRequestAccounts(c)
    \/ Disconnect

ProviderSpec == InitProvider /\ [][ProviderNext]_vars

(***************************************************************************)
(* SessionSpec: the methods of request() that complete without a popup,    *)
(* over every kind of stored session record.                               *)
(***************************************************************************)
EventNames == {"accountsChanged", "chainChanged"}

SessionNext ==
    \/ Tick
    \/ \E m \in Methods : \E p \in ParamsOf(m) : RequestSync(m, p)
    \/ Disconnect
    \/ \E e \in EventNames : On(e, "f")
    \/ \E e \in EventNames : RemoveListener(e, "f")

SessionSpec == Init /\ [][SessionNext]_vars

(***************************************************************************)
(* RaceSpec: Spec, with the record of which channels have carried a valid  *)
(* matching reply to each exchange.                                        *)
(***************************************************************************)
\* one reply of each kind that settles an exchange
RaceReplies ==
    {GoodAuth(1, AddrA),
     Reply("amvault:tx", TRUE, "", NoSignature, <<>>, 0, Config.chainId,
           "0xhash", ""),
     Reply("amvault:error", FALSE, "", NoSignature, <<>>, 0, 0, "",
           "User rejected")}

RaceMessageEvents ==
    MessageEventsOf({AmvaultUrl.origin}, Slots, RaceReplies)
    \cup MessageEventsOf({EvilOrigin}, {1}, {GoodAuth(1, AddrA)})

RaceStorageEvents ==
    StorageEventsOf({"amvault:payload"}, RaceReplies)
    \cup StorageEventsOf({"amvault.session"}, {GoodAuth(1, AddrA)})

RaceNext ==
    \/ Tick
    \/ \E c \in Slots, api \in {"signMessage", "sendTransaction"},
          o \in TimeoutOpts, b \in BOOLEAN,
          nav \in {"href", "assign", "throws"} :
            StartCall(c, api, NoParams, o, b, nav)
    \/ \E ev \in RaceMessageEvents : TrackedMessageEvent(ev)
    \/ \E ev \in RaceStorageEvents : TrackedStorageEvent(ev)
    \/ \E c \in Slots : TimerFire(c)
    \/ AppCloseSharedPopup
    \/ CloseSharedPopupResume
    \/ \E w \in Slots : PopupClosed(w)
    \/ Beforeunload

RaceSpec == InitClient /\ [][RaceNext]_vars

(***************************************************************************)
(* AuthSpec: eth_requestAccounts against a signer application that answers *)
(* with every kind of authentication reply, right or wrong.                *)
(***************************************************************************)
\* an authentication reply with ok set
AuthReply(a, sig, m, n, ch) ==
    Reply("amvault:auth", TRUE, a, sig, m, n, ch, "", "")

\* the signatures a reply to the request with nonce 1 for AddrA may carry:
\* by AddrA, by another key, over another message, none
AuthSignatures ==
    {Signed(AddrA, _buildMessage(1)), Signed(AddrB, _buildMessage(1)),
     Signed(AddrA, _buildMessage(0)), NoSignature}

\* replies to the sign-in with nonce 1: every combination of signature,
\* echoed nonce and echoed chain id; a reply that echoes the message it
\* signed; a reply that echoes another message than it signed; a reply
\* whose message is blank; a reply that claims the signer's address in
\* lower case; a reply without an address; refusals; and a correct reply
\* to the sign-in with nonce 2
AuthReplies ==
    {AuthReply(AddrA, sig, <<>>, n, ch) :
        sig \in AuthSignatures, n \in {1, 0}, ch \in {Config.chainId, 1}}
    \cup {AuthReply(AddrA, Signed(AddrA, _buildMessage(0)),
                    _buildMessage(0), 1, Config.chainId),
          AuthReply(AddrA, Signed(AddrA, _buildMessage(1)),
                    _buildMessage(0), 1, Config.chainId),
          AuthReply(AddrA, Signed(AddrA, _buildMessage(1)), BlankMessage, 1,
                    Config.chainId),
          AuthReply(toLowerCase(AddrA), Signed(AddrA, _buildMessage(1)),
                    <<>>, 1, Config.chainId),
          AuthReply("", Signed(AddrA, _buildMessage(1)), <<>>, 1,
                    Config.chainId),
          GoodAuth(2, AddrB),
          Reply("amvault:auth", FALSE, "", NoSignature, <<>>, 0, 0, "", ""),
          Reply("amvault:auth", FALSE, "", NoSignature, <<>>, 0, 0, "",
                "Vault locked"),
          Reply("amvault:error", FALSE, "", NoSignature, <<>>, 0, 0, "",
                "User rejected"),
          Reply("amvault:error", FALSE, "", NoSignature, <<>>, 0, 0, "",
                "Vault locked")}

\* what a previous page load may have left: nothing, or an expired session
InitAuth ==
    /\ Init
    /\ localStorage \in
          {NullText, JSONstringify(Session(<<"ain-", AddrB>>, AddrB, 0, 0))}

AuthNext ==
    \/ Tick
    \/ \E c \in Slots, b \in BOOLEAN :
            StartCall(c, "eth_requestAccounts", NoParams, {}, b, "href")
    \/ \E ev \in MessageEventsOf({AmvaultUrl.origin}, Slots, AuthReplies) :
            MessageEvent(ev)
    \/ \E c \in Slots : TimerFire(c)
    \/ \E c \in Slots : ResumeRequestAccounts(c)

AuthSpec == InitAuth /\ [][AuthNext]_vars

(***************************************************************************)
(* FailSpec: the four popup-mediated methods of request() when the         *)
(* exchange fails: the popup is blocked, the navigation throws, the signer *)
(* application answers with an error, or nothing answers in time.          *)
(***************************************************************************)
\* error replies: without a text, and with texts that name a rejection, a
\* cancellation, and neither
FailReplies ==
    {Reply("amvault:error", FALSE, "", NoSignature, <<>>, 0, 0, "", e) :
        e \in {"", "User rejected", "User cancelled", "Vault locked"}}

\* nothing stored, or a session that is valid until 2 * TickMs
InitFail ==
    /\ Init
    /\ sessionTtlMs = {}
    /\ localStorage \in
          {NullText,
           JSONstringify(Session(<<"ain-", AddrB>>, AddrB, 0, 2 * TickMs))}

FailNext ==
    \/ Tick
    \/ \E c \in Slots, api \in PopupMethods, b \in BOOLEAN,
          nav \in {"href", "throws"} :
            StartCall(c, api, NoParams, {}, b, nav)
    \/ \E ev \in MessageEventsOf({AmvaultUrl.origin}, Slots, FailReplies) :
            MessageEvent(ev)
    \/ \E ev \in StorageEventsOf(STORAGE_FALLBACK_KEYS, FailReplies) :
            StorageEvent(ev)
    \/ \E c \in Slots : TimerFire(c)

FailSpec == InitFail /\ [][FailNext]_vars

(***************************************************************************)
(* ReleaseSpec: the release of the popup when the browser calls it makes   *)
(* may throw.  The application releases the popup itself, between calls    *)
(* of the protocol client; the continuation of closeSharedPopup is a       *)
(* microtask, which the event loop runs once the current task has ended.   *)
(***************************************************************************)
\* the application calls closeSharedPopup(); close() or removeChild() may
\* throw inside it
AppCloseSharedPopupCatching(closeThrows, removeThrows) ==
    /\ SetPM(closeSharedPopupCatching(PM, closeThrows, removeThrows))
    /\ last' = NoLast
    /\ UNCHANGED <<now, sessionTtlMs, localStorage, ex, seen, call, provVars>>

ReleaseNext ==
    \/ Tick
    \/ \E c \in Slots, api \in {"signMessage", "sendTransaction"},
          o \in TimeoutOpts, b \in BOOLEAN :
            StartCall(c, api, NoParams, o, b, "href")
    \/ \E c \in Slots : TimerFire(c)
    \/ \E closeThrows, removeThrows \in BOOLEAN :
            AppCloseSharedPopupCatching(closeThrows, removeThrows)
    \/ CloseSharedPopupResume
    \/ Beforeunload

ReleaseSpec ==
    /\ Init /\ [][ReleaseNext]_vars
    /\ WF_vars(CloseSharedPopupResume)

(***************************************************************************)
(* ListenerSpec: the event emitter.  The application registers and         *)
(* removes listeners, signs in, asks for the accounts and disconnects.     *)
(***************************************************************************)
\* the events the provider emits
EmittedEvents == {"accountsChanged", "connect", "disconnect"}

\* correct replies to the sign-ins with nonce 1 and nonce 2
ListenerReplies == {GoodAuth(1, AddrA), GoodAuth(2, AddrB)}

InitListener ==
    /\ Init
    /\ sessionTtlMs = {}
    /\ localStorage = NullText

ListenerNext ==
    \/ \E e \in EmittedEvents, l \in Listeners : On(e, l)
    \/ \E e \in EmittedEvents, l \in Listeners : RemoveListener(e, l)
    \/ \E e \in EmittedEvents, l \in Listeners : Off(e, l)
    \/ \E c \in Slots :
            StartCall(c, "eth_requestAccounts", NoParams, {}, FALSE, "href")
    \/ \E ev \in MessageEventsOf({AmvaultUrl.origin}, Slots,
                                   ListenerReplies) :
            MessageEvent(ev)
    \/ \E c \in Slots : ResumeRequestAccounts(c)
    \/ \E m \in {"eth_accounts", "personal_sign", "eth_sendTransaction"} :
            RequestSync(m, NoParams)
    \/ Disconnect

ListenerSpec == InitListener /\ [][ListenerNext]_vars

(***************************************************************************)
(* Properties.                                                             *)
(***************************************************************************)
\* the promise of the exchange e has an outcome
Settled(e) == e.state \in {"resolved", "rejected"}

\* C1: the promise of one exchange is settled at most once whatever the
\* order of replies, timer and closes; once both channels have carried a
\* valid matching reply to it, it has been settled exactly once; and an
\* outcome, once there, never changes.
C1_SettledOnce ==
    /\ [](\A c \in Slots :
            /\ ex[c].settleCalls <= 1
            /\ seen[c] # {} => Settled(ex[c]) /\ ex[c].settleCalls = 1)
    /\ [][\A c \in Slots :
            Settled(ex[c]) =>
                /\ ex'[c].state = ex[c].state
                /\ ex'[c].value = ex[c].value
                /\ ex'[c].error = ex[c].error
                /\ ex'[c].settleCalls = ex[c].settleCalls]_vars

\* both channels carried a valid matching reply to an exchange, which
\* resolved once
C1_Witness ==
    \E c \in Slots :
        /\ seen[c] = {"message", "storage"}
        /\ ex[c].state = "resolved"
        /\ ex[c].settleCalls = 1

\* the message event ev does not come from the signer's origin and the
\* popup window of the exchange e
Foreign(e, ev) == ev.origin # AmvaultUrl.origin \/ ev.source # e.popup

\* C2: in every reachable state, dispatching a message event whose origin
\* is not the signer's, or whose source is not the popup window of a pending
\* exchange, leaves that exchange and its call exactly as they were,
\* whatever the event carries (error replies included).
C2_ForeignMessageIgnored ==
    \A c \in Slots : \A ev \in ClientMessageEvents :
        (ex[c].state = "pending" /\ Foreign(ex[c], ev)) =>
            LET S == dispatchMessage([pm |-> PM, ex |-> ex], ev, 1) IN
            /\ S.ex[c] = ex[c]
            /\ continueCall(call[c], S.ex[c], now, sessionTtlMs) = call[c]

\* Two sign-message exchanges, the first pending on window 1 and the second
\* resolved on window 2.  The first has had its listeners registered since
\* before the second began, and a storage reply would have resolved both:
\* the reply came as a message from window 2, was dispatched to the first
\* exchange's listener too, and left it pending.
C2_Witness ==
    /\ ex[1].state = "pending" /\ ex[1].method = "sign_message"
    /\ ex[1].popup = 1 /\ ex[1].onMsg
    /\ ex[2].state = "resolved" /\ ex[2].method = "sign_message"
    /\ ex[2].popup = 2

\* the exchange e was answered by a reply that echoes another nonce
NonceDiffers(e) ==
    e.state = "resolved" /\ e.value[1].ok /\ e.value[1].nonce # e.nonce

\* C3: a call whose exchange was answered by an ok reply echoing a nonce
\* other than the one the request carried never returns a value: it fails,
\* and the failure is the nonce mismatch.
C3_NonceChecked ==
    \A c \in Slots :
        (call[c].phase = "done" /\ NonceDiffers(ex[c])) =>
            /\ call[c].result.kind = "err"
            /\ call[c].result.message = "Nonce mismatch"

TimeoutError == "Timed out waiting for AmVault"

\* C4: an exchange that has its popup and its listeners is eventually
\* settled; and when its timer fires while it is still pending, it is
\* rejected with the timeout error, the shared popup reference is cleared
\* and no popup window is left open.
C4_TimeoutSettles ==
    /\ \A c \in Slots :
          (ex[c].state = "pending" /\ ex[c].onMsg /\ ex[c].onStorage)
              ~> Settled(ex[c])
    /\ [][\A c \in Slots :
            (ex[c].state = "pending" /\ TimerFire(c)) =>
                /\ ex'[c].state = "rejected"
                /\ ex'[c].error = TimeoutError
                /\ sharedPopup' = NULL
                /\ \A w \in Slots : windows'[w] # "open"]_vars

\* an exchange that had a popup timed out, and the popup is released
C4_Witness ==
    \E c \in Slots :
        /\ ex[c].state = "rejected" /\ ex[c].error = TimeoutError
        /\ ex[c].popup # NULL /\ ex[c].navigated = 1
        /\ sharedPopup = NULL /\ windows[ex[c].popup] = "closed"

\* the item is the JSON text of a session record
StoredSession(item) == item.kind = "json" /\ item.value # <<>>

\* the item is a session record whose expiresAt is not after the time t
Expired(item, t) == StoredSession(item) /\ item.value[1].expiresAt <= t

\* the call just completed acted on a session it loaded
SessionSeen ==
    \/ last.result.kind = "ok" /\ last.result.value.tag = "array"
           /\ last.result.value.str # <<>>
    \/ last.result.code = <<-32602>>

\* the call just completed found no session
NoSessionSeen ==
    \/ last.result = Returned(ArrayValue(<<>>))
    \/ last.result.kind = "err" /\ last.result.code = <<4100>>

LaterTimes == {t \in 0..MaxTicks : t * TickMs >= now}

\* C5: a call that loads the session acts on one only if the stored record
\* expires after the current time; when the record it read has expiresAt at
\* or before the current time, the call finds no session, the storage key
\* is empty afterwards, and a load at any later time finds no session.
C5_ExpiredNeverLoaded ==
    last.raw # <<>> =>
        /\ SessionSeen =>
              StoredSession(last.raw[1])
              /\ last.raw[1].value[1].expiresAt > now
        /\ Expired(last.raw[1], now) =>
              /\ NoSessionSeen
              /\ localStorage = NullText
              /\ \A t \in LaterTimes :
                    _loadSession(localStorage, t * TickMs).session = <<>>

\* eth_accounts read an expired session: it returned [], the key is empty
C5_Witness ==
    /\ last.op = "eth_accounts"
    /\ last.raw # <<>> /\ Expired(last.raw[1], now)
    /\ last.result = Returned(ArrayValue(<<>>))
    /\ localStorage = NullText

\* C6: a call that reads a stored record that does not parse finds no
\* session, and afterwards the storage key no longer holds that record.
C6_UnparseableEvicted ==
    (last.raw # <<>> /\ last.raw[1] = GarbageText) =>
        NoSessionSeen /\ localStorage # GarbageText

\* C6, amended: a call that reads a stored record that does not parse
\* finds no session and leaves the record where it is.
C6_UnparseableKept ==
    (last.raw # <<>> /\ last.raw[1] = GarbageText) =>
        NoSessionSeen /\ localStorage = GarbageText

\* eth_accounts read a record that does not parse: it returned [], and the
\* record is still stored
C6_Witness ==
    /\ last.op = "eth_accounts"
    /\ last.raw = <<GarbageText>>
    /\ last.result = Returned(ArrayValue(<<>>))
    /\ localStorage = GarbageText

\* the session time-to-live in force
SessionTtl == IF sessionTtlMs = {} THEN 86400000
              ELSE CHOOSE x \in sessionTtlMs : TRUE

\* the call just completed is an eth_requestAccounts that signed in
SignInCompleted ==
    /\ last.op = "eth_requestAccounts" /\ last.raw = <<>>
    /\ last.result.kind = "ok"

\* the reply r answers the sign-in of the exchange e correctly
CorrectAuth(e, r) ==
    /\ r.type = "amvault:auth" /\ r.ok
    /\ r.nonce = e.nonce /\ r.chainId = Config.chainId
    /\ r.signature.by = r.address

\* the most recent of the completed sign-ins
LatestSignIn == signedIn[Len(signedIn)]

\* the call just completed is an eth_accounts made before the session s
\* expires
AccountsAskedBefore(s) == last.op = "eth_accounts" /\ now < s.expiresAt

\* C7: when eth_requestAccounts signs in, its exchange was answered by a
\* correct auth reply for an address A, the session {A, now, now + TTL} is
\* stored, and the call returns [lowercase(A)]; and every eth_accounts made
\* before a completed sign-in's session expires, with no disconnect since,
\* returns that sign-in's lowercased address.
C7_SignInThenAccounts ==
    /\ SignInCompleted =>
          \E c \in Slots :
              /\ call[c].api = "eth_requestAccounts"
              /\ call[c].phase = "done"
              /\ call[c].result = last.result
              /\ ex[c].state = "resolved"
              /\ CorrectAuth(ex[c], ex[c].value[1])
              /\ LET A == ex[c].value[1].address IN
                 /\ localStorage = JSONstringify(
                        Session(<<"ain-", A>>, A, now, now + SessionTtl))
                 /\ last.result = Returned(ArrayValue(<<toLowerCase(A)>>))
    /\ \A i \in DOMAIN signedIn :
          AccountsAskedBefore(signedIn[i]) =>
              last.result =
                  Returned(ArrayValue(<<toLowerCase(signedIn[i].address)>>))

\* C7, amended: the same, where eth_accounts returns the lowercased
\* address of the most recently completed sign-in.
C7_LatestSignInThenAccounts ==
    /\ SignInCompleted =>
          \E c \in Slots :
              /\ call[c].api = "eth_requestAccounts"
              /\ call[c].phase = "done"
              /\ call[c].result = last.result
              /\ ex[c].state = "resolved"
              /\ CorrectAuth(ex[c], ex[c].value[1])
              /\ LET A == ex[c].value[1].address IN
                 /\ localStorage = JSONstringify(
                        Session(<<"ain-", A>>, A, now, now + SessionTtl))
                 /\ last.result = Returned(ArrayValue(<<toLowerCase(A)>>))
    /\ (signedIn # <<>> /\ AccountsAskedBefore(LatestSignIn)) =>
          last.result =
              Returned(ArrayValue(<<toLowerCase(LatestSignIn.address)>>))

\* after one sign-in for AddrA, at a later time, eth_accounts returned its
\* lowercased address
C7_Witness ==
    /\ Len(signedIn) = 1 /\ signedIn[1].address = AddrA
    /\ signedIn[1].issuedAt < now
    /\ AccountsAskedBefore(signedIn[1])
    /\ last.result = Returned(ArrayValue(<<"0xabcd">>))

SignOps == {"personal_sign", "eth_sign", "eth_sendTransaction"}

\* a session is stored and the current time is before its expiresAt
HasValidSession ==
    StoredSession(localStorage) /\ now < localStorage.value[1].expiresAt

\* C8: personal_sign, eth_sign and eth_sendTransaction get to open the
\* popup only when a valid session is stored; called without one they
\* throw the code 4100 and leave the popup, the windows, the overlay, the
\* exchanges with their listeners and timers, and the calls as they were.
C8_UnauthorizedBeforePopup ==
    /\ [][\A c \in Slots :
            (call[c].api = "none" /\ call'[c].api \in SignOps) =>
                HasValidSession]_vars
    /\ [][(last'.op \in SignOps /\ ~HasValidSession) =>
            /\ last'.result.kind = "err"
            /\ last'.result.code = <<4100>>
            /\ UNCHANGED <<popupVars, ex, call>>]_vars

\* personal_sign read a session that had expired and threw 4100; no window
\* was ever opened
C8_Witness ==
    /\ last.op = "personal_sign"
    /\ last.raw # <<>> /\ Expired(last.raw[1], now)
    /\ last.result.code = <<4100>>
    /\ sharedPopup = NULL
    /\ \A w \in Slots : windows[w] = "unopened"

\* the chainId parameter is "0x" or "0X" followed by hexadecimal digits
WellFormedChainId(param) ==
    /\ Len(param) >= 3
    /\ param[1] = "0" /\ param[2] \in {"x", "X"}
    /\ \A i \in 3..Len(param) : IsHexDigit(param[i])

\* the number a well-formed chainId parameter denotes
RECURSIVE HexNumber(_)
HexNumber(digits) ==
    IF digits = <<>> THEN 0
    ELSE 16 * HexNumber(SubSeq(digits, 1, Len(digits) - 1))
         + HexDigitValue(digits[Len(digits)])
ChainIdOf(param) == HexNumber(SubSeq(param, 3, Len(param)))

ChainMethods == {"wallet_switchEthereumChain", "wallet_addEthereumChain"}

\* the call just completed was a chain request with a well-formed chainId
ChainRequested ==
    last.op \in ChainMethods /\ WellFormedChainId(last.params.chainId)

\* C9, for chainId parameters that are 0x-prefixed hexadecimal strings (the
\* form EIP-3326 and EIP-3085 prescribe; parseInt also reads a digit prefix
\* of other strings): a chain-switch or chain-add request whose chainId
\* denotes another chain than the configured one throws; one whose chainId
\* denotes the configured chain returns null, emits nothing, and leaves the
\* stored session, the popup, the exchanges and their listeners and timers,
\* the calls and the provider's listener registry as they were.
C9_ChainRequestNoEffect ==
    /\ [](ChainRequested =>
            IF ChainIdOf(last.params.chainId) = Config.chainId
            THEN last.result = Returned(NullValue) /\ last.emits = <<>>
            ELSE last.result.kind = "err")
    /\ [][last'.op \in ChainMethods =>
                UNCHANGED <<localStorage, popupVars, ex, call, _listeners,
                            signedIn, now, sessionTtlMs>>]_vars

\* a chain-switch request for the configured chain returned null while a
\* session was stored and a listener registered
C9_Witness ==
    /\ last.op = "wallet_switchEthereumChain"
    /\ last.params.chainId = <<"0", "x", "1", "0">>
    /\ last.result = Returned(NullValue)
    /\ StoredSession(localStorage) /\ _listeners # NoListeners

\* the call just completed was a chain request for another chain
OtherChainRequested ==
    ChainRequested /\ ChainIdOf(last.params.chainId) # Config.chainId

\* C10: a chain-switch request and a chain-add request for another chain
\* than the configured one are both rejected with the code 4200.
C10_BothUnsupported ==
    OtherChainRequested =>
        last.result.kind = "err" /\ last.result.code = <<4200>>

\* C10, amended: both are rejected; the chain-switch request with the code
\* 4901, the chain-add request with the code 4200.
C10_SwitchDisconnectedAddUnsupported ==
    OtherChainRequested =>
        /\ last.result.kind = "err"
        /\ last.op = "wallet_switchEthereumChain" =>
              last.result.code = <<4901>>
        /\ last.op = "wallet_addEthereumChain" =>
              last.result.code = <<4200>>

\* a chain-switch request for another chain was rejected with 4901
C10_Witness ==
    /\ last.op = "wallet_switchEthereumChain"
    /\ OtherChainRequested
    /\ last.result.code = <<4901>>

\* the call just completed is an eth_requestAccounts that was answered
\* from the stored session
AnsweredFromSession == last.op = "eth_requestAccounts" /\ last.raw # <<>>

\* C11: eth_requestAccounts starts an exchange only when no valid session
\* is stored; called while one is stored, it returns that session's
\* lower-cased address, emits nothing and calls no listener, and leaves the
\* stored record (expiresAt included), the popup, the windows, the
\* exchanges and the calls in progress as they were.
C11_ExistingSessionReturned ==
    /\ [][\A c \in Slots :
            (call[c].api = "none" /\ call'[c].api = "eth_requestAccounts")
                => ~HasValidSession]_vars
    /\ [][(AnsweredFromSession' /\ HasValidSession) =>
            /\ last'.result = Returned(ArrayValue(
                   <<toLowerCase(localStorage.value[1].address)>>))
            /\ last'.emits = <<>> /\ last'.invoked = <<>>
            /\ UNCHANGED <<localStorage, popupVars, ex, call, signedIn,
                           _listeners>>]_vars

\* after a sign-in for AddrA, at a later time, eth_requestAccounts returned
\* its lower-cased address and the stored session is the one the sign-in
\* saved
C11_Witness ==
    /\ AnsweredFromSession
    /\ Len(signedIn) = 1 /\ signedIn[1].address = AddrA
    /\ signedIn[1].issuedAt < now
    /\ last.result = Returned(ArrayValue(<<"0xabcd">>))
    /\ localStorage = JSONstringify(signedIn[1])
\* what the library recovers from the signature of the reply r to the
\* sign-in of the exchange e: [threw, address]
Recovered(e, r) ==
    verifyMessage(IF r.message \notin {<<>>, <<" ">>} THEN r.message
                  ELSE _buildMessage(e.nonce), r.signature)

\* the three checks on the reply r to the sign-in of the exchange e
SignerIsClaimed(e, r) ==
    /\ ~Recovered(e, r).threw /\ r.address # ""
    /\ toLowerCase(Recovered(e, r).address) = toLowerCase(r.address)
NonceEchoed(e, r) == r.nonce = e.nonce
ChainEchoed(r) == r.chainId = Config.chainId

\* the exchange e was answered by a reply with ok set that passes the
\* three checks
Verified(e) ==
    /\ e.state = "resolved" /\ e.value[1].ok
    /\ SignerIsClaimed(e, e.value[1])
    /\ NonceEchoed(e, e.value[1])
    /\ ChainEchoed(e.value[1])

\* the eth_requestAccounts call c completes in this step
SignInEnds(c) ==
    /\ call[c].phase # "done"
    /\ call'[c].phase = "done" /\ call'[c].api = "eth_requestAccounts"

\* C12: a session record is written only in a step in which an
\* eth_requestAccounts call completes whose exchange was answered by a
\* reply with ok set that passes the signature, nonce and chain-id checks;
\* an eth_requestAccounts call that completes otherwise (popup blocked,
\* exchange rejected or timed out, ok not set, a check failed) fails,
\* writes nothing to the session key (an expired record it found there is
\* removed), emits nothing and calls no listener.
C12_SavedOnlyWhenVerified ==
    /\ [][(localStorage' # localStorage /\ StoredSession(localStorage')) =>
            \E c \in Slots : SignInEnds(c) /\ Verified(ex'[c])]_vars
    /\ [][\A c \in Slots :
            (SignInEnds(c) /\ ~Verified(ex'[c])) =>
                /\ call'[c].result.kind = "err"
                /\ \/ localStorage' = localStorage
                   \/ Expired(localStorage, now) /\ localStorage' = NullText
                /\ last'.emits = <<>> /\ last'.invoked = <<>>]_vars

\* a sign-in was answered by a reply with ok set and a good signature that
\* echoes another nonce: the call failed and nothing is stored
C12_Witness ==
    \E c \in Slots :
        /\ call[c].api = "eth_requestAccounts" /\ call[c].phase = "done"
        /\ ex[c].state = "resolved" /\ ex[c].value[1].ok
        /\ SignerIsClaimed(ex[c], ex[c].value[1])
        /\ ~NonceEchoed(ex[c], ex[c].value[1])
        /\ ChainEchoed(ex[c].value[1])
        /\ call[c].result.kind = "err"
        /\ localStorage = NullText
\* the reasons the verification gives for each check
SignatureReason == "Signature verification failed"
NonceReason == "Nonce mismatch"
ChainReason == "Wrong network"

\* the eth_requestAccounts call c has completed on a reply with ok set
ReplyJudged(c) ==
    /\ call[c].api = "eth_requestAccounts" /\ call[c].phase = "done"
    /\ ex[c].state = "resolved" /\ ex[c].value[1].ok

\* C13: an eth_requestAccounts call whose reply fails the signature check
\* fails with the signature reason whatever the echoed nonce and chain id
\* are (when the reply carries no signature or no address, with the error
\* raised by the attempt to verify, which is neither of the other two
\* reasons); one whose reply passes the signature check and echoes another
\* nonce fails with the nonce reason whatever the echoed chain id is; one
\* whose reply passes both and echoes another chain id fails with the
\* chain reason; and the three reasons are different texts.
C13_FirstFailingCheckReported ==
    /\ Cardinality({SignatureReason, NonceReason, ChainReason}) = 3
    /\ \A c \in Slots :
          ReplyJudged(c) =>
              LET e == ex[c]
                  r == ex[c].value[1]
                  res == call[c].result
              IN
              /\ ~SignerIsClaimed(e, r) =>
                    /\ res.kind = "err"
                    /\ res.message \notin {NonceReason, ChainReason}
                    /\ (r.signature # NoSignature /\ r.address # "") =>
                          res.message = SignatureReason
              /\ (SignerIsClaimed(e, r) /\ ~NonceEchoed(e, r)) =>
                    res.kind = "err" /\ res.message = NonceReason
              /\ (SignerIsClaimed(e, r) /\ NonceEchoed(e, r)
                    /\ ~ChainEchoed(r)) =>
                    res.kind = "err" /\ res.message = ChainReason

\* a reply signed by another key that also echoes another nonce and
\* another chain id was reported with the signature reason
C13_Witness ==
    \E c \in Slots :
        /\ ReplyJudged(c)
        /\ ex[c].value[1].signature = Signed(AddrB, _buildMessage(1))
        /\ ex[c].value[1].address = AddrA
        /\ ~NonceEchoed(ex[c], ex[c].value[1])
        /\ ~ChainEchoed(ex[c].value[1])
        /\ call[c].result.message = SignatureReason
\* C14: an eth_requestAccounts call whose reply has ok set and fails a
\* check never fails with the code -32603: when the echoed chain id is the
\* failing check it fails with the code 4901, and when the signature or
\* the echoed nonce is, with the code 4100.
C14_VerificationCodes ==
    \A c \in Slots :
        (ReplyJudged(c) /\ ~Verified(ex[c])) =>
            /\ call[c].result.kind = "err"
            /\ call[c].result.code # <<-32603>>
            /\ call[c].result.code =
                  IF /\ SignerIsClaimed(ex[c], ex[c].value[1])
                     /\ NonceEchoed(ex[c], ex[c].value[1])
                  THEN <<4901>> ELSE <<4100>>

\* the popup-mediated call c has completed on a rejected exchange
ExchangeFailed(c) ==
    /\ call[c].api \in PopupMethods /\ call[c].phase = "done"
    /\ ex[c].state = "rejected"

\* C15: a call of eth_requestAccounts, personal_sign, eth_sign or
\* eth_sendTransaction whose exchange is rejected fails with the code 4001
\* when the text of the rejection contains reject, cancel or blocked
\* (case-insensitively; 'Popup blocked' included), and with the code
\* -32603 otherwise (the timeout included).
C15_ExchangeFailureCodes ==
    \A c \in Slots :
        ExchangeFailed(c) =>
            /\ call[c].result.kind = "err"
            /\ call[c].result.code =
                  IF WordsIn(ex[c].error) \cap {"reject", "cancel", "blocked"}
                         # {}
                  THEN <<4001>> ELSE <<-32603>>
\* the fixed vocabulary of outcome codes
OutcomeCodes == {RPC_ERROR[k] : k \in DOMAIN RPC_ERROR}

\* the failure r carries one code of the vocabulary
Coded(r) == r.code # <<>> /\ r.code[1] \in OutcomeCodes

\* C16: every request() that fails, whether it completes without a popup
\* or after its exchange, whatever the reply contains, fails with an error
\* that carries one of the codes of RPC_ERROR.
C16_EveryFailureCoded ==
    /\ last.result.kind = "err" => Coded(last.result)
    /\ \A c \in Slots :
          (call[c].api \in PopupMethods /\ call[c].phase = "done"
              /\ call[c].result.kind = "err") => Coded(call[c].result)
\* the calls that emitting event with arg makes while the session key
\* holds item: one call of each registered listener, in the order of
\* registration
CallsOf(event, arg, item) ==
    [i \in DOMAIN _listeners[event] |->
        Invocation(_listeners[event][i], event, arg, item)]

\* C17: in the step in which an eth_requestAccounts call returns the
\* accounts of a sign-in for the address A, the session {A, now, now + TTL}
\* is stored, accountsChanged([lowercase A]) and then connect({chainId})
\* are emitted, once each and nothing else, and every listener called by
\* either emission finds that session already stored.
C17_SaveThenAccountsThenConnect ==
    [][\A c \in Slots :
        (SignInEnds(c) /\ call'[c].result.kind = "ok") =>
            LET A == ex[c].value[1].address
                accounts == <<toLowerCase(A)>>
                saved == JSONstringify(
                             Session(<<"ain-", A>>, A, now, now + SessionTtl))
            IN
            /\ localStorage' = saved
            /\ last'.emits =
                  <<Emission("accountsChanged", accounts),
                    Emission("connect", <<"0", "x", "1", "0">>)>>
            /\ last'.invoked =
                  CallsOf("accountsChanged", accounts, saved)
                  \o CallsOf("connect", <<"0", "x", "1", "0">>, saved)
            /\ call'[c].result = Returned(ArrayValue(accounts))
            /\ last'.result = call'[c].result]_vars

\* a sign-in for AddrA completed with a listener on accountsChanged and
\* one on connect: both were called, in that order, and found the session
\* of AddrA stored
C17_Witness ==
    /\ SignInCompleted
    /\ Len(last.invoked) = 2
    /\ last.invoked[1].event = "accountsChanged"
    /\ last.invoked[1].arg = <<"0xabcd">>
    /\ last.invoked[2].event = "connect"
    /\ last.invoked[1].stored = localStorage
    /\ StoredSession(localStorage)
    /\ localStorage.value[1].address = AddrA
\* the emissions of disconnect()
DisconnectEmits ==
    <<Emission("accountsChanged", <<>>), Emission("disconnect", <<>>)>>

\* C18: disconnect() leaves the session key empty and emits
\* accountsChanged([]) and then disconnect, and every listener called by
\* either emission finds the key already empty; the key stays empty until
\* an eth_requestAccounts sign-in completes; and as long as it is empty
\* eth_accounts returns [] and personal_sign and eth_sendTransaction fail
\* with the code 4100.
C18_DisconnectClearsThenEmits ==
    /\ [](last.op = "disconnect" =>
            /\ localStorage = NullText
            /\ last.emits = DisconnectEmits
            /\ last.invoked =
                  CallsOf("accountsChanged", <<>>, NullText)
                  \o CallsOf("disconnect", <<>>, NullText))
    /\ [][(localStorage = NullText /\ localStorage' # NullText) =>
            \E c \in Slots :
                SignInEnds(c) /\ call'[c].result.kind = "ok"]_vars
    /\ [](last.raw = <<NullText>> =>
            /\ last.op = "eth_accounts" =>
                  last.result = Returned(ArrayValue(<<>>))
            /\ last.op \in {"personal_sign", "eth_sendTransaction"} =>
                  last.result.kind = "err" /\ last.result.code = <<4100>>)

\* a sign-in had completed, disconnect() was called, and personal_sign
\* then failed with 4100
C18_Witness ==
    /\ \E c \in Slots :
          /\ call[c].api = "eth_requestAccounts" /\ call[c].phase = "done"
          /\ call[c].result.kind = "ok"
    /\ signedIn = <<>>
    /\ last.op = "personal_sign" /\ last.raw = <<NullText>>
    /\ last.result.code = <<4100>>

\* the listener l registered for event was called by the operation just
\* completed
Called(l, event) ==
    \E i \in DOMAIN last.invoked :
        last.invoked[i].listener = l /\ last.invoked[i].event = event

\* every listener registered for one of the events was called
AllCalled(events) ==
    \A e \in events : \A l \in Listeners :
        IsMember(l, _listeners[e]) => Called(l, e)

\* C19, for listeners that do not themselves call on / off /
\* removeListener while they run: disconnect() returns normally, makes both its emissions and calls
\* every listener registered for accountsChanged and for disconnect,
\* whichever of them throw; and an eth_requestAccounts call whose reply
\* passes the verification returns the accounts, has stored the session,
\* makes both its emissions and calls every listener registered for
\* accountsChanged and for connect, whichever of them throw.
C19_ThrowingListenerIsolated ==
    /\ [](last.op = "disconnect" =>
            /\ last.result = Returned(NullValue)
            /\ Len(last.emits) = 2
            /\ AllCalled({"accountsChanged", "disconnect"}))
    /\ [][\A c \in Slots :
            (SignInEnds(c) /\ Verified(ex'[c])) =>
                /\ call'[c].result.kind = "ok"
                /\ StoredSession(localStorage')
                /\ Len(last'.emits) = 2
                /\ AllCalled({"accountsChanged", "connect"})']_vars

\* disconnect() ran with the throwing listener registered before another
\* one for accountsChanged, and one registered for disconnect: all three
\* were called and disconnect() returned
C19_Witness ==
    /\ last.op = "disconnect"
    /\ _listeners["accountsChanged"] = <<"g", "f">>
    /\ _listeners["disconnect"] = <<"f">>
    /\ Len(last.invoked) = 3
    /\ last.invoked[1].listener = "g"
    /\ last.invoked[2].listener = "f"
    /\ last.invoked[3].event = "disconnect"
    /\ last.result = Returned(NullValue)

\* how many times x occurs in seq
Occurrences(x, seq) == Cardinality({i \in DOMAIN seq : seq[i] = x})

\* how many times the operation just completed called l for event
InvokedTimes(l, event) ==
    Cardinality({i \in DOMAIN last.invoked :
                    /\ last.invoked[i].listener = l
                    /\ last.invoked[i].event = event})

\* seq without x
Without(x, seq) == SelectSeq(seq, LAMBDA y : y # x)

\* C20, for on / off / removeListener called between emissions, not from
\* inside a listener: the registry holds a listener at most once per event;
\* an emission calls each listener registered for its event exactly once
\* and no other listener; after on(e, l) the listener l is registered for
\* e, once, however often it was added before; after off(e, l) or
\* removeListener(e, l) it is not registered for e; removing a listener
\* that is not registered leaves the registry as it was; and each of the
\* three leaves the listeners of the other events, and the other listeners
\* of e with their order, as they were.
C20_RegistrySetSemantics ==
    /\ \A e \in EIP1193EventMap : \A l \in Listeners :
          Occurrences(l, _listeners[e]) <= 1
    /\ \A i \in DOMAIN last.emits : \A l \in Listeners :
          InvokedTimes(l, last.emits[i].event) =
              IF IsMember(l, _listeners[last.emits[i].event]) THEN 1 ELSE 0
    /\ last.reg # <<>> =>
          LET r == last.reg[1] IN
          /\ \A e \in EIP1193EventMap \ {r.event} :
                _listeners[e] = r.before[e]
          /\ Without(r.listener, _listeners[r.event])
                = Without(r.listener, r.before[r.event])
          /\ last.op = "on" =>
                Occurrences(r.listener, _listeners[r.event]) = 1
          /\ last.op \in {"off", "removeListener"} =>
                /\ Occurrences(r.listener, _listeners[r.event]) = 0
                /\ ~IsMember(r.listener, r.before[r.event]) =>
                      _listeners = r.before

\* on() was called for a listener that was already registered for the
\* event, after another one: the registry holds it once, where it was
C20_Witness ==
    /\ last.op = "on" /\ last.reg # <<>>
    /\ last.reg[1].event = "accountsChanged" /\ last.reg[1].listener = "f"
    /\ last.reg[1].before["accountsChanged"] = <<"f", "g">>
    /\ _listeners["accountsChanged"] = <<"f", "g">>
    /\ _listeners["disconnect"] # <<>>

\* the shared handle references a window that is still open
HandleOpen(p) == p.sharedPopup # NULL /\ ~closed(p, p.sharedPopup)

\* C21: in every reachable state every open window this module created is
\* the one the shared handle references, so at most one is open; a call of
\* preOpenAmvaultPopup made while the handle is held and open changes
\* nothing and returns that handle, and a call creates a window only when
\* no handle is held or the held one is closed.
C21_OnePopup ==
    /\ \A w \in Slots : windows[w] = "open" => sharedPopup = w
    /\ \A v, w \in Slots : windows[v] = "open" /\ windows[w] = "open" => v = w
    /\ \A b \in BOOLEAN :
          /\ HandleOpen(PM) =>
                /\ preOpenAmvaultPopup(PM, b) = PM
                /\ preOpenAmvaultPopup(PM, b).sharedPopup = sharedPopup
          /\ (\E w \in Slots : windows[w] = "unopened") =>
                (preOpenAmvaultPopup(PM, b).windows # windows =>
                    ~HandleOpen(PM) /\ ~b)

\* the second call began while the popup of the first was open and runs on
\* that same window; no second window was created
C21_Witness ==
    /\ ex[1].state = "pending" /\ ex[2].state = "pending"
    /\ ex[1].popup = 1 /\ ex[2].popup = 1
    /\ sharedPopup = 1 /\ windows[1] = "open" /\ windows[2] = "unopened"

\* the exchange e was started and window.open gave it no popup
Blocked(e) == e.state # "idle" /\ e.popup = NULL

\* C22: an exchange whose popup acquisition returned null is rejected with
\* 'Popup blocked' in the task of the call, directly from IDLE: the popup
\* was never navigated, no message listener, storage listener or timer is
\* registered for it, and its call has failed with that error; the call
\* asked for a window exactly once and none was created; and nothing
\* changes the exchange afterwards.
C22_BlockedFailsAtOnce ==
    /\ [](\A c \in Slots :
            Blocked(ex[c]) =>
                /\ ex[c].state = "rejected" /\ ex[c].error = "Popup blocked"
                /\ ex[c].path = <<"IDLE", "POPUP_BLOCKED">>
                /\ ex[c].navigated = 0 /\ ex[c].settleCalls = 1
                /\ ~ex[c].onMsg /\ ~ex[c].onStorage /\ ~ex[c].timer
                /\ call[c].phase = "done"
                /\ call[c].result = Thrown("Popup blocked"))
    /\ [][\A c \in Slots :
            /\ (ex[c].state = "idle" /\ Blocked(ex'[c])) =>
                    /\ unloadHooks' = unloadHooks + 1
                    /\ windows' = windows
            /\ Blocked(ex[c]) => ex'[c] = ex[c] /\ call'[c] = call[c]]_vars

\* the first call was blocked; the second call got a popup later and is
\* awaiting its reply, the first is as it was
C22_Witness ==
    /\ Blocked(ex[1]) /\ call[1].result = Thrown("Popup blocked")
    /\ ex[2].state = "pending" /\ ex[2].popup # NULL /\ ex[2].timer

\* no popup is open, no handle is held and no overlay is attached
Released(p) ==
    /\ p.sharedPopup = NULL /\ p.overlayEl = NULL /\ p.domOverlays = 0
    /\ \A w \in Slots : p.windows[w] # "open"

\* what the popup module holds, apart from the progress of a release
Held(p) ==
    <<p.sharedPopup, p.overlayEl, p.windows, p.domOverlays, p.unloadHooks>>

\* C23: in every reachable state, a call of closeSharedPopup made while a
\* release is in progress changes nothing; a call made when no release is
\* in progress leaves the popup closed, the handle null and the overlay
\* detached, and further calls, before or after the first has resumed,
\* leave exactly that; a call made when no release is in progress and
\* neither popup nor overlay is held changes nothing that is held, and
\* once it has resumed the state is the one before the call.
C23_ReleaseIdempotent ==
    LET q == closeSharedPopup(PM)
        r == closeSharedPopupResume(q)
    IN
    /\ isClosing => q = PM
    /\ ~isClosing =>
          /\ Released(q)
          /\ closeSharedPopup(q) = q
          /\ Held(closeSharedPopup(r)) = Held(q)
          /\ closeSharedPopupResume(closeSharedPopup(r)) = r
    /\ (~isClosing /\ sharedPopup = NULL /\ overlayEl = NULL) =>
          Held(q) = Held(PM) /\ r = PM

\* a release is in progress and a call made after it began holds an open
\* popup: a call of closeSharedPopup now is the guarded one
C23_Witness ==
    /\ isClosing /\ closePending
    /\ HandleOpen(PM) /\ overlayEl # NULL
    /\ \E c \in Slots : ex[c].state = "pending" /\ ex[c].popup = sharedPopup

\* the methods request() implements
SupportedMethods ==
    {"eth_chainId", "net_version", "eth_accounts", "eth_requestAccounts",
     "personal_sign", "eth_sign", "eth_sendTransaction",
     "wallet_switchEthereumChain", "wallet_addEthereumChain"}

\* C24: request() with a method name outside the supported set (a name of
\* another method, or a supported name in another letter case) throws the
\* unsupported-method code 4200, and the task of the call changes nothing:
\* the stored session is neither read nor written, no popup or exchange is
\* started, no listener is called and no event is emitted.
C24_UnsupportedMethodRejected ==
    /\ [](last.op \in Methods \ SupportedMethods =>
            /\ last.result.kind = "err"
            /\ last.result.code = <<4200>>
            /\ last.raw = <<>> /\ last.emits = <<>> /\ last.invoked = <<>>)
    /\ [][last'.op \in Methods \ SupportedMethods =>
            UNCHANGED <<now, sessionTtlMs, localStorage, popupVars, ex, seen,
                        call, provVars>>]_vars

\* an unsupported method was requested while the storage held a session
\* past its expiry, with a listener registered: the record is still there
C24_Witness ==
    /\ last.op \in {"eth_call", "ETH_CHAINID"}
    /\ last.result.code = <<RPC_ERROR.UNSUPPORTED_METHOD>>
    /\ StoredSession(localStorage) /\ Expired(localStorage, now)
    /\ _listeners["accountsChanged"] # <<>>

\* the calls the application issues in the step
NewCalls == {c \in Slots : call[c].api = "none" /\ call'[c].api # "none"}

\* the exchange e has failed
Failed(e) == e.state = "rejected"

\* C25: every step issues at most one call; the windows it creates, the
\* requests for a window it makes, the navigations and the timers it arms
\* are at most one each and belong to the call issued in it, so a step that
\* issues no call does none of these; an exchange is navigated at most
\* once; and an exchange that has failed (blocked, error reply, timeout,
\* failed navigation) is never touched again.
C25_NoRetry ==
    /\ [](\A c \in Slots : ex[c].navigated <= 1)
    /\ [][/\ Cardinality(NewCalls) <= 1
          /\ Cardinality({w \in Slots : windows[w] # "open"
                                          /\ windows'[w] = "open"})
                <= Cardinality(NewCalls)
          /\ unloadHooks' <= unloadHooks + Cardinality(NewCalls)
          /\ \A c \in Slots :
                /\ (~ex[c].timer /\ ex'[c].timer) => c \in NewCalls
                /\ ex'[c].navigated > ex[c].navigated => c \in NewCalls
                /\ (ex[c].timer /\ ex'[c].timer) =>
                        ex'[c].deadline = ex[c].deadline
                /\ Failed(ex[c]) => ex'[c] = ex[c]]_vars

\* the first exchange timed out and its popup was closed; the popup that is
\* open now is the one a second call of the application opened
C25_Witness ==
    /\ ex[1].path = <<"IDLE", "POPUP_ACQUIRED", "AWAITING_REPLY", "TIMED_OUT">>
    /\ ex[1].navigated = 1 /\ windows[1] = "closed"
    /\ ex[2].state = "pending" /\ ex[2].popup = 2 /\ windows[2] = "open"

\* the helpers that take opts.timeoutMs
DeadlineHelpers == {"signMessage", "sendTransaction"}

\* C26: when signMessage or sendTransaction is called with opts.timeoutMs
\* and its exchange is armed, the deadline timer is set to that many
\* milliseconds after the call; when it is called without, to 120000 ms
\* after the call.
C26_DeadlineConfigurable ==
    [][\A c \in Slots, api \in DeadlineHelpers, o \in TimeoutOpts,
          b \in BOOLEAN, nav \in {"href", "assign", "throws"} :
            (StartCall(c, api, NoParams, o, b, nav) /\ ex'[c].timer) =>
                ex'[c].deadline = now + Coalesce(o, 120000)]_vars

\* the exchange e was settled by a reply of the type with ok set
AnsweredOk(e, type) ==
    e.state = "resolved" /\ e.value[1].type = type /\ e.value[1].ok

\* C27: a call of sendTransaction is over as soon as its exchange has
\* settled; it returns a value exactly when the exchange was settled by a
\* transaction reply with ok set and a non-empty txHash, and the value is
\* that hash; a call of signMessage returns a value exactly when the
\* exchange was settled by an auth reply with ok set and a signature, and
\* the value is that signature; in every other case the call has thrown.
C27_ValueOnlyFromGoodReply ==
    \A c \in Slots :
        /\ (call[c].api \in DeadlineHelpers /\ Settled(ex[c])) =>
                call[c].phase = "done"
        /\ (call[c].api = "sendTransaction" /\ call[c].phase = "done") =>
                IF AnsweredOk(ex[c], "amvault:tx")
                   /\ ex[c].value[1].txHash # ""
                THEN call[c].result =
                         Returned(StringValue(<<ex[c].value[1].txHash>>))
                ELSE call[c].result.kind = "err"
        /\ (call[c].api = "signMessage" /\ call[c].phase = "done") =>
                IF AnsweredOk(ex[c], "amvault:auth")
                   /\ ex[c].value[1].signature # NoSignature
                THEN call[c].result =
                         Returned(SigValue(ex[c].value[1].signature))
                ELSE call[c].result.kind = "err"

\* sendTransaction was answered by a transaction reply with ok set and no
\* hash and has thrown; signMessage was answered by an auth reply with a
\* signature and has returned it
C27_Witness ==
    /\ call[1].api = "sendTransaction" /\ call[1].phase = "done"
    /\ AnsweredOk(ex[1], "amvault:tx") /\ ex[1].value[1].txHash = ""
    /\ call[1].result.kind = "err"
    /\ call[2].api = "signMessage" /\ call[2].result.kind = "ok"

ClaimedTransitions ==
    {<<"IDLE", "POPUP_ACQUIRED">>, <<"IDLE", "POPUP_BLOCKED">>,
     <<"POPUP_ACQUIRED", "AWAITING_REPLY">>,
     <<"AWAITING_REPLY", "FULFILLED">>, <<"AWAITING_REPLY", "REJECTED">>,
     <<"AWAITING_REPLY", "TIMED_OUT">>}

\* the transition of an exchange whose popup could not be navigated
NavigationFailed == <<"POPUP_ACQUIRED", "REJECTED">>

TerminalStates == {"FULFILLED", "REJECTED", "TIMED_OUT", "POPUP_BLOCKED"}

\* the path starts in IDLE and takes only transitions of T
Follows(path, T) ==
    /\ path[1] = "IDLE"
    /\ \A i \in 1..(Len(path) - 1) : <<path[i], path[i + 1]>> \in T

\* in the step, every exchange stays where it is or moves on from where it
\* is, and stays where it is when that is a terminal state
MovesOn ==
    \A c \in Slots :
        LET p == ex[c].path
            q == ex'[c].path
        IN /\ Len(q) >= Len(p) /\ SubSeq(q, 1, Len(p)) = p
           /\ p[Len(p)] \in TerminalStates => ex'[c] = ex[c]

\* the state of the protocol the exchange e is in is the state its promise,
\* its popup, its listeners and its timer are in
StateIsReal(e) ==
    LET st == e.path[Len(e.path)] IN
    /\ st \notin {"POPUP_ACQUIRED"}
    /\ st = "IDLE" <=> e.state = "idle"
    /\ st = "AWAITING_REPLY" <=> e.state = "pending"
    /\ st = "FULFILLED" <=> e.state = "resolved"
    /\ st \in {"REJECTED", "TIMED_OUT", "POPUP_BLOCKED"} <=>
          e.state = "rejected"
    /\ st = "POPUP_BLOCKED" <=> Blocked(e)
    /\ st = "TIMED_OUT" <=> (e.state = "rejected" /\ e.error = TimeoutText)
    /\ st = "AWAITING_REPLY" <=> (e.onMsg /\ e.onStorage /\ e.timer)
    /\ st = "AWAITING_REPLY" => e.navigated = 1

FamilyTag(method) ==
    CASE method \in {"signin", "sign_message"} -> "amvault:auth"
      [] method = "eth_sendTransaction" -> "amvault:tx"
      [] OTHER -> ""

\* a reply of the other family or with an unknown type tag: neither a
\* reply to the method nor an error reply
OffFamily(method, data) ==
    data.type # FamilyTag(method) /\ data.type # "amvault:error"

\* C30: an exchange that is fulfilled holds a reply whose type tag is the
\* one of its method family; and in every reachable state, a message event
\* from the signer's origin and the exchange's popup, or a storage event
\* under a fallback key, that carries a reply of the other family or with
\* an unknown type tag leaves a pending exchange and its call exactly as
\* they were, listeners and timer included.
C30_FamilyMatched ==
    \A c \in Slots :
        /\ ex[c].state = "resolved" =>
                ex[c].value[1].type = FamilyTag(ex[c].method)
        /\ ex[c].state = "pending" =>
            /\ \A ev \in ClientMessageEvents :
                  (~Foreign(ex[c], ev) /\ ev.data # <<>>
                   /\ OffFamily(ex[c].method, ev.data[1])) =>
                      LET S == dispatchMessage([pm |-> PM, ex |-> ex], ev, 1)
                      IN /\ S.ex[c] = ex[c]
                         /\ continueCall(call[c], S.ex[c], now,
                                         sessionTtlMs) = call[c]
            /\ \A ev \in ClientStorageEvents :
                  (ev.key \in STORAGE_FALLBACK_KEYS
                   /\ ev.newValue.kind = "json" /\ ev.newValue.value # <<>>
                   /\ OffFamily(ex[c].method, ev.newValue.value[1])) =>
                      LET S == dispatchStorage([pm |-> PM, ex |-> ex], ev, 1)
                      IN /\ S.ex[c] = ex[c]
                         /\ continueCall(call[c], S.ex[c], now,
                                         sessionTtlMs) = call[c]

\* a send-transaction exchange and a sign-message exchange ran on the same
\* popup; an auth reply was dispatched to the listeners of both: it
\* fulfilled the sign-message exchange and left the other pending with its
\* listeners and its timer
C30_Witness ==
    /\ ex[1].method = "eth_sendTransaction" /\ ex[1].state = "pending"
    /\ ex[1].onMsg /\ ex[1].onStorage /\ ex[1].timer
    /\ ex[2].method = "sign_message" /\ ex[2].state = "resolved"
    /\ ex[2].value[1].type = "amvault:auth"
    /\ ex[1].popup = ex[2].popup

\* the exchange e as an error reply r leaves it
FailedBy(e, r) ==
    /\ e.state = "rejected" /\ e.settled /\ e.settleCalls = 1
    /\ e.error = IF r.error = "" THEN "Request rejected" ELSE r.error
    /\ e.path[Len(e.path)] = "REJECTED"

\* C31: in every reachable state, for every pending exchange, whatever its
\* method (signin, sign_message, eth_sendTransaction), an error reply in a
\* message event from the signer's origin and the exchange's popup, or in
\* a storage event under a fallback key, rejects the exchange with the
\* text of the reply, or with 'Request rejected' when the reply has none.
C31_ErrorReplyFails ==
    \A c \in Slots : \A r \in FailReplies :
        ex[c].state = "pending" =>
            /\ FailedBy(dispatchMessage(
                            [pm |-> PM, ex |-> ex],
                            [origin |-> AmvaultUrl.origin,
                             source |-> ex[c].popup, data |-> <<r>>],
                            1).ex[c], r)
            /\ \A k \in STORAGE_FALLBACK_KEYS :
                  FailedBy(dispatchStorage(
                               [pm |-> PM, ex |-> ex],
                               [key |-> k, newValue |-> JSONstringify(r)],
                               1).ex[c], r)

\* a sign-in exchange was failed by an error reply without a text and a
\* later one by an error reply with a text
C31_Witness ==
    /\ ex[1].method = "signin" /\ ex[1].settled
    /\ ex[1].error = "Request rejected"
    /\ ex[2].method = "signin" /\ ex[2].settled
    /\ ex[2].error = "Vault locked"

\* a storage event under another key or under no key, or whose new value
\* is null, empty, or not JSON
Unusable(ev) ==
    \/ ev.key \notin STORAGE_FALLBACK_KEYS
    \/ ev.newValue.kind \in {"null", "empty", "garbage"}

\* C32: in every state in which the browser dispatches events (no
\* microtask is waiting), dispatching a storage event whose key is
\* not a fallback key, or whose new value is null, empty or not JSON,
\* changes no exchange, no call and nothing of the popup, so a pending
\* exchange keeps both listeners and its timer; and a reply of the
\* exchange's family that then comes as a message from the signer's origin
\* and the exchange's popup fulfils it.
C32_UnusableStorageIgnored ==
    \A ev \in ClientStorageEvents :
        (~closePending /\ Unusable(ev)) =>
            LET S == dispatchStorage([pm |-> PM, ex |-> ex], ev, 1) IN
            /\ S.ex = ex /\ S.pm = PM
            /\ \A c \in Slots :
                  /\ continueCall(call[c], S.ex[c], now, sessionTtlMs)
                        = call[c]
                  /\ ex[c].state = "pending" =>
                        /\ S.ex[c].onMsg /\ S.ex[c].onStorage
                        /\ S.ex[c].timer
                        /\ \A r \in ClientReplies :
                              r.type = FamilyTag(ex[c].method) =>
                                LET T == dispatchMessage(
                                           S, [origin |-> AmvaultUrl.origin,
                                               source |-> ex[c].popup,
                                               data |-> <<r>>], 1)
                                IN /\ T.ex[c].state = "resolved"
                                   /\ T.ex[c].value = <<r>>

\* time has passed on a pending send-transaction exchange that has both
\* listeners and its timer, while an exchange on another popup was
\* fulfilled
C32_Witness ==
    /\ now = TickMs
    /\ ex[1].method = "eth_sendTransaction" /\ ex[1].state = "pending"
    /\ ex[1].onMsg /\ ex[1].onStorage /\ ex[1].timer
    /\ ex[2].state = "resolved" /\ ex[2].popup # ex[1].popup
    /\ ~closePending

\* the step is one in which no sign-in completes and disconnect() is not
\* called: calls and completions of personal_sign, eth_sign and
\* eth_sendTransaction, reads of the accounts, events, timers
NoSignInNoDisconnect ==
    last'.op \notin {"eth_requestAccounts", "disconnect"}

\* C33: a step in which no sign-in completes and disconnect() is not
\* called, so every step that starts, fails or completes a personal_sign,
\* eth_sign or eth_sendTransaction call, leaves the stored session record
\* as it was, unless the record had expired and the step removed it; and a
\* step after which the storage holds another session record than before
\* is the completion of a sign-in that returned the account.
C33_SigningKeepsSession ==
    [][/\ NoSignInNoDisconnect =>
             \/ localStorage' = localStorage
             \/ Expired(localStorage, now) /\ localStorage' = NullText
       /\ (StoredSession(localStorage') /\ localStorage' # localStorage) =>
             /\ last'.op = "eth_requestAccounts"
             /\ last'.result.kind = "ok"]_vars

\* with a session stored, one signing call was refused by the browser's
\* popup blocker and one returned a signature; the session is the stored
\* one
C33_Witness ==
    /\ StoredSession(localStorage) /\ ~Expired(localStorage, now)
    /\ call[1].api \in SignOps /\ call[1].phase = "done"
    /\ ex[1].error = "Popup blocked"
    /\ call[2].api \in SignOps /\ call[2].result.kind = "ok"

\* C34: in every reachable state (an exchange pending or not, a release in
\* progress or not, the popup open, closed by the user, or never opened),
\* one run of the beforeunload listener leaves no window open, the handle
\* null, the overlay detached and its reference null, and isClosing false;
\* a second run, and the run of every registered listener one after the
\* other, leaves exactly the same; and the task in which the browser fires
\* beforeunload ends in that state with no listener left registered.
C34_TeardownReleases ==
    /\ [](LET h == beforeunloadHook(PM) IN
          /\ Released(h) /\ ~h.isClosing
          /\ beforeunloadHook(h) = h
          /\ \A n \in 1..(unloadHooks + 1) : runHooks(PM, n) = h)
    /\ [][(unloadHooks > 0 /\ unloadHooks' = 0) =>
            /\ sharedPopup' = NULL /\ overlayEl' = NULL
            /\ domOverlays' = 0 /\ ~isClosing'
            /\ \A w \in Slots : windows'[w] # "open"]_vars

\* beforeunload fired while two exchanges were pending on the open popup:
\* every registered listener has run, the popup is closed and everything
\* is released
C34_Witness ==
    /\ unloadHooks = 0
    /\ ex[1].state = "pending" /\ ex[2].state = "pending"
    /\ ex[1].popup = 1 /\ ex[2].popup = 1 /\ windows[1] = "closed"
    /\ Released(PM) /\ ~isClosing

\* the reply r echoes a message that is not blank
Echoes(r) == r.message # <<>> /\ r.message # BlankMessage

\* the address the signature of r recovers to over the message m is, but
\* for the letter case, the address r claims
SignedBy(r, m) ==
    /\ r.signature # NoSignature /\ r.signature.over = m
    /\ toLowerCase(r.signature.by) = toLowerCase(r.address)

\* the eth_requestAccounts call c has completed on a reply with ok set that
\* has a signature and an address
SignatureJudged(c) ==
    /\ call[c].api = "eth_requestAccounts" /\ call[c].phase = "done"
    /\ ex[c].state = "resolved" /\ ex[c].value[1].ok
    /\ ex[c].value[1].signature # NoSignature
    /\ ex[c].value[1].address # ""

\* C35: when eth_requestAccounts completes on a reply with ok set, a
\* signature and an address, the signature is judged over the message the
\* reply echoes when that is a non-blank string and over the message the
\* client sent when the reply has no message or a blank one: if the
\* signature is not one by the claimed address (compared without regard to
\* letter case) over that message, the call fails with 'Signature
\* verification failed'; if it is, the call does not fail for that reason,
\* and returns the claimed address in lower case when nonce and chain id
\* are echoed.
C35_EchoedMessageVerified ==
    \A c \in Slots :
        SignatureJudged(c) =>
            LET r == ex[c].value[1]
                m == IF Echoes(r) THEN r.message
                     ELSE _buildMessage(ex[c].nonce)
            IN IF SignedBy(r, m)
               THEN /\ call[c].result.message # SignatureReason
                    /\ (r.nonce = ex[c].nonce /\ r.chainId = Config.chainId)
                          => call[c].result =
                               Returned(ArrayValue(<<toLowerCase(r.address)>>))
               ELSE /\ call[c].result.kind = "err"
                    /\ call[c].result.message = SignatureReason

\* a sign-in completed on a reply that echoes another message than the
\* client sent, signed over the echoed one, and returned the account
C35_Witness ==
    /\ SignatureJudged(1)
    /\ Echoes(ex[1].value[1])
    /\ ex[1].value[1].message # _buildMessage(ex[1].nonce)
    /\ ex[1].value[1].signature.over = ex[1].value[1].message
    /\ call[1].result.kind = "ok"

\* C36: in every reachable state where the shared popup reference is null
\* no overlay element is attached to the document, and at most one overlay
\* element is attached at any time.
C36_OverlayOnlyWithPopup ==
    /\ sharedPopup = NULL => domOverlays = 0
    /\ domOverlays <= 1

\* the exchange of call d settles in the step
Settles(d) == ex[d].state = "pending" /\ Settled(ex'[d])

\* C37: an exchange issued while another is pending on the open popup
\* gets that same popup; and a step in which one exchange settles and
\* another stays pending leaves the popup of the pending one open if it
\* was open.
C37_PopupKeptForPending ==
    [][\A c, d \in Slots :
          /\ (ex[c].state = "pending" /\ windows[ex[c].popup] = "open"
               /\ ex[d].state = "idle" /\ ex'[d].state = "pending") =>
                  ex'[d].popup = ex[c].popup
          /\ (c # d /\ Settles(d) /\ ex[c].state = "pending"
               /\ ex'[c].state = "pending"
               /\ windows[ex[c].popup] = "open") =>
                  windows'[ex[c].popup] = "open"]_vars

\* C38: a step settles at most one exchange; and an exchange that a reply
\* carrying a nonce has fulfilled holds the reply to its own request, the
\* one that echoes its nonce.
C38_ReplySettlesItsExchange ==
    /\ [][Cardinality({c \in Slots : Settles(c)}) <= 1]_vars
    /\ [](\A c \in Slots :
            (ex[c].state = "resolved" /\ ex[c].value[1].nonce # 0) =>
                ex[c].value[1].nonce = ex[c].nonce)

\* the exchange held a popup and reaches its end in the step
Ends(c) == ~Settled(ex[c]) /\ Settled(ex'[c]) /\ ex'[c].popup # NULL

\* C39: the step in which an exchange that acquired the popup ends, by a
\* reply, the timeout or a failed navigation, leaves that popup not open
\* and no overlay attached.
C39_EndedExchangeReleases ==
    [][\A c \in Slots :
          Ends(c) => /\ windows'[ex'[c].popup] # "open"
                     /\ overlayEl' = NULL /\ domOverlays' = 0]_vars

\* C40: whenever the release-in-progress flag is set, by a call of
\* closeSharedPopup in which closing the window or detaching the overlay
\* may have thrown, it is eventually false again.
C40_ClosingFlagClears == isClosing ~> ~isClosing

\* the flag is clear again after a release in which close() and
\* removeChild() both threw: the window is still open and the overlay still
\* in the document, with neither referenced
C40_Witness ==
    /\ ~isClosing /\ ~closePending
    /\ sharedPopup = NULL /\ overlayEl = NULL
    /\ domOverlays > 0
    /\ \E w \in Slots : windows[w] = "open"

=============================================================================
